---- MODULE Spec2Model ----
(***************************************************************************)
(* A model of the GDELT 2.0 MCP server (ledgerW/gdelt-mcp): credential     *)
(* resolution (utils/auth.py), the BigQuery client (bigquery_client.py),   *)
(* the tool implementations (tools/*.py) and the tool entry points         *)
(* (server.py).                                                            *)
(*                                                                         *)
(* Text that the program parses or composes (bearer tokens, filters, SQL)  *)
(* is a sequence of one-character strings, so that split, startswith,      *)
(* regular-expression search and f-string composition are computed and     *)
(* not assumed.  Fixed messages that the program only returns are TLA+     *)
(* strings.  Python's None is the value None below.                        *)
(***************************************************************************)
EXTENDS Integers, Sequences, FiniteSets, TLC

VARIABLES
    environ,    \* os.environ: the three GCP_* variables (None when unset)
    request,    \* the call being served: its name and its arguments
    session,    \* the GDELTBigQueryClient built for the call: <<>> or <<client>>
    jobs,       \* the warehouse calls the call has issued, in order
    result,     \* [returned |-> FALSE], or the value the call returned
    warehouse,  \* per project: the gdelt_subsets dataset and its tables
    now         \* the clock (half-seconds), read by the server and the warehouse

vars == <<environ, request, session, jobs, result, warehouse, now>>

None == <<"<None>">>

Pending == [returned |-> FALSE]

Returned(v) == [returned |-> TRUE, value |-> v]

\* the projects the warehouse knows and the subset names callers use
Projects == { <<"p">>, <<"e">> }

SubsetNames == { <<"s","1">> }

\* a project before its gdelt_subsets dataset exists: no dataset, no table
EmptyWarehouse ==
    [p \in Projects |->
        [dataset |-> FALSE, tables |-> [s \in SubsetNames |-> <<>>]]]

(***************************************************************************)
(* Python str operations on character sequences.                           *)
(***************************************************************************)
Truthy(s) == s # None /\ s # <<>>

StartsWith(s, prefix) ==
    /\ Len(s) >= Len(prefix)
    /\ SubSeq(s, 1, Len(prefix)) = prefix

EndsWith(s, suffix) ==
    /\ Len(s) >= Len(suffix)
    /\ SubSeq(s, Len(s) - Len(suffix) + 1, Len(s)) = suffix

\* sub in s
Contains(s, sub) ==
    \E i \in 1..(Len(s) - Len(sub) + 1) : SubSeq(s, i, i + Len(sub) - 1) = sub

\* s[n:]
Drop(s, n) == SubSeq(s, n + 1, Len(s))

\* s.split(sep) for a one-character sep: the list of parts
RECURSIVE Split(_, _)
Split(s, sep) ==
    IF \A i \in 1..Len(s) : s[i] # sep
    THEN <<s>>
    ELSE LET i == CHOOSE j \in 1..Len(s) :
                      s[j] = sep /\ \A k \in 1..(j - 1) : s[k] # sep
         IN <<SubSeq(s, 1, i - 1)>> \o Split(Drop(s, i), sep)

\* sep.join(parts)
RECURSIVE Join(_, _)
Join(parts, sep) ==
    IF parts = <<>> THEN <<>>
    ELSE IF Len(parts) = 1 THEN parts[1]
    ELSE parts[1] \o sep \o Join(Tail(parts), sep)

\* s.replace(old, new), leftmost non-overlapping occurrences
RECURSIVE Replace(_, _, _)
Replace(s, old, new) ==
    IF Len(s) < Len(old) \/ old = <<>> THEN s
    ELSE IF StartsWith(s, old)
         THEN new \o Replace(Drop(s, Len(old)), old, new)
         ELSE <<s[1]>> \o Replace(Tail(s), old, new)

(***************************************************************************)
(* utils/auth.py                                                           *)
(***************************************************************************)
PEM_HEADER ==
    <<"-","-","-","-","-","B","E","G","I","N"," ","P","R","I","V","A","T","E",
      " ","K","E","Y","-","-","-","-","-">>

BEARER == <<"B","e","a","r","e","r"," ">>

\* the checks on the parts of token.split("|")
credentials_from_parts(parts) ==
    IF Len(parts) # 3 THEN None
    ELSE IF /\ parts[1] # <<>>
            /\ StartsWith(parts[2], PEM_HEADER)
            /\ "@" \in { parts[3][i] : i \in 1..Len(parts[3]) }
         THEN <<parts[1], parts[2], parts[3]>>
         ELSE None

\* get_http_headers().get("authorization", ""), then the token checks
get_credentials_from_token(auth_header) ==
    IF ~StartsWith(auth_header, BEARER) THEN None
    ELSE credentials_from_parts(Split(Drop(auth_header, 7), "|"))

\* the environment source without the '@' check
get_credentials_from_env_no_at(env) ==
    IF Truthy(env.GCP_PROJECT_ID) /\ Truthy(env.GCP_PRIVATE_KEY)
          /\ Truthy(env.GCP_CLIENT_EMAIL)
          /\ StartsWith(env.GCP_PRIVATE_KEY, PEM_HEADER)
    THEN <<env.GCP_PROJECT_ID, env.GCP_PRIVATE_KEY, env.GCP_CLIENT_EMAIL>>
    ELSE None

get_credentials_from_env(env) ==
    LET project_id   == env.GCP_PROJECT_ID
        private_key  == env.GCP_PRIVATE_KEY
        client_email == env.GCP_CLIENT_EMAIL
    IN IF ~(Truthy(project_id) /\ Truthy(private_key) /\ Truthy(client_email))
       THEN None
       ELSE IF /\ StartsWith(private_key, PEM_HEADER)
               /\ "@" \in { client_email[i] : i \in 1..Len(client_email) }
            THEN <<project_id, private_key, client_email>>
            ELSE None

\* the fallback that takes the environment variables as they are
or_from_env_unchecked(credentials, env) ==
    IF credentials # None THEN credentials
    ELSE IF env.GCP_PROJECT_ID = None THEN None
    ELSE <<env.GCP_PROJECT_ID, env.GCP_PRIVATE_KEY, env.GCP_CLIENT_EMAIL>>

\* if credentials: return credentials; else the environment source
\* a resolution that stops at the token source
or_nothing(credentials, env) == credentials

or_from_env(credentials, env) ==
    IF credentials # None THEN credentials ELSE get_credentials_from_env(env)

\* Bearer token first, the environment as the fallback
get_credentials(auth_header, env) ==
    or_from_env(get_credentials_from_token(auth_header), env)

(***************************************************************************)
(* Credential resolution on its own: a triple is presented as the bearer   *)
(* token project_id|private_key|client_email and, when envSet, as the      *)
(* three environment variables; ResolveCredentials applies both sources.   *)
(***************************************************************************)
ProjectIds == { <<>>, <<"p">>, <<"p","|","q">> }

PrivateKeys ==
    { <<>>, <<"k">>, PEM_HEADER, PEM_HEADER \o <<"k">>, <<"k">> \o PEM_HEADER,
      Tail(PEM_HEADER), PEM_HEADER \o <<"|","k">> }

ClientEmails == { <<>>, <<"a","b">>, <<"@">>, <<"a","@","b">>, <<"a","|","@","b">> }

CredentialTriples ==
    { <<p, k, e>> : p \in ProjectIds, k \in PrivateKeys, e \in ClientEmails }

\* tokens with another number of fields: "abc|def", two and four fields
MalformedFields ==
    { << <<"a","b","c">>, <<"d","e","f">> >>,
      << <<"p">>, PEM_HEADER >>,
      << <<"p">>, PEM_HEADER, <<"a","@","b">>, <<"x">> >> }

Schemes == { BEARER, <<"B","a","s","i","c"," ">>, <<>> }

EnvUnset ==
    [GCP_PROJECT_ID |-> None, GCP_PRIVATE_KEY |-> None, GCP_CLIENT_EMAIL |-> None]

EnvOf(t) ==
    [GCP_PROJECT_ID |-> t[1], GCP_PRIVATE_KEY |-> t[2], GCP_CLIENT_EMAIL |-> t[3]]

InitAuth ==
    /\ \E fields \in CredentialTriples \cup MalformedFields,
          scheme \in Schemes, envSet \in BOOLEAN :
          /\ request = [call |-> "get_credentials",
                        fields |-> fields,
                        scheme |-> scheme,
                        authorization |-> scheme \o Join(fields, <<"|">>)]
          /\ environ = IF envSet /\ Len(fields) = 3 THEN EnvOf(fields) ELSE EnvUnset
    /\ session = <<>>
    /\ jobs = <<>>
    /\ result = Pending
    /\ warehouse = EmptyWarehouse
    /\ now = 0

ResolveCredentials ==
    /\ request.call = "get_credentials"
    /\ ~result.returned
    /\ result' = Returned(
           [from_token  |-> get_credentials_from_token(request.authorization),
            from_env    |-> get_credentials_from_env(environ),
            credentials |-> get_credentials(request.authorization, environ)])
    /\ UNCHANGED <<environ, request, session, jobs, warehouse, now>>

NextAuth == ResolveCredentials

SpecAuth == InitAuth /\ [][NextAuth]_vars

(***************************************************************************)
(* Claim C3.                                                               *)
(***************************************************************************)
Resolved == request.call = "get_credentials" /\ result.returned

\* project_id non-empty, private_key begins with the PEM header, '@' in client_email
ValidTriple(t) ==
    /\ t[1] # <<>>
    /\ StartsWith(t[2], PEM_HEADER)
    /\ Contains(t[3], <<"@">>)

PipeFree(t) == \A i \in 1..Len(t) : ~Contains(t[i], <<"|">>)

PipeCount(s) == Cardinality({ i \in 1..Len(s) : s[i] = "|" })

BearerToken == Drop(request.authorization, Len(request.scheme))

\* C3 as claimed: a triple resolves to an identity iff project_id is
\* non-empty, private_key begins with the PEM header and client_email contains
\* '@'; a token that does not split on '|' into exactly 3 parts is absent; the
\* same triple is accepted from the token source exactly when it is accepted
\* from the environment source; resolution is the full triple or absent.
C3_AsClaimed ==
    Resolved =>
        LET t == request.fields
            r == result.value
        IN /\ (request.scheme = BEARER /\ Len(t) = 3) =>
                  ((r.from_token # None) <=> ValidTriple(t))
           /\ (environ # EnvUnset) => ((r.from_env # None) <=> ValidTriple(t))
           /\ (PipeCount(BearerToken) # 2) => r.from_token = None
           /\ (request.scheme = BEARER /\ environ # EnvUnset) =>
                  ((r.from_token # None) <=> (r.from_env # None))
           /\ r.from_token \in {None, t}
           /\ r.from_env \in {None, t}
           /\ r.credentials \in {None, t}

\* C3 amended: the environment source accepts a triple iff project_id is
\* non-empty, private_key begins with the PEM header and client_email
\* contains '@'; the token source accepts the token
\* project_id|private_key|client_email iff the triple passes the same checks
\* and none of its fields contains '|'; a token that does not split on '|'
\* into exactly 3 parts is absent; the two sources agree on every triple
\* whose fields contain no '|'; resolution is the full triple or absent.
C3_Theorem ==
    Resolved =>
        LET t == request.fields
            r == result.value
        IN /\ (request.scheme = BEARER /\ Len(t) = 3) =>
                  ((r.from_token # None) <=> (ValidTriple(t) /\ PipeFree(t)))
           /\ (environ # EnvUnset) => ((r.from_env # None) <=> ValidTriple(t))
           /\ (PipeCount(BearerToken) # 2) => r.from_token = None
           /\ (request.scheme = BEARER /\ environ # EnvUnset /\ PipeFree(t)) =>
                  ((r.from_token # None) <=> (r.from_env # None))
           /\ r.from_token \in {None, t}
           /\ r.from_env \in {None, t}
           /\ r.credentials \in {None, t}

\* a well-formed triple, presented both ways, resolved from both sources
C3_Witness ==
    /\ Resolved
    /\ request.scheme = BEARER
    /\ environ # EnvUnset
    /\ ValidTriple(request.fields)
    /\ result.value.from_token = request.fields
    /\ result.value.from_env = request.fields

(***************************************************************************)
(* bigquery_client.py: partition-filter inference.                         *)
(* re.search(r'NAME\s*>=?\s*(\d{n})', where_clause, re.IGNORECASE) is      *)
(* computed on the characters (ASCII letters, digits and whitespace).      *)
(***************************************************************************)
EVENTS_TABLE ==
    <<"g","d","e","l","t","-","b","q",".","g","d","e","l","t","v","2",".",
      "e","v","e","n","t","s","_","p","a","r","t","i","t","i","o","n","e","d">>

EVENTMENTIONS_TABLE ==
    <<"g","d","e","l","t","-","b","q",".","g","d","e","l","t","v","2",".",
      "e","v","e","n","t","m","e","n","t","i","o","n","s","_",
      "p","a","r","t","i","t","i","o","n","e","d">>

GKG_TABLE ==
    <<"g","d","e","l","t","-","b","q",".","g","d","e","l","t","v","2",".",
      "g","k","g","_","p","a","r","t","i","t","i","o","n","e","d">>

CLOUDVISION_TABLE ==
    <<"g","d","e","l","t","-","b","q",".","g","d","e","l","t","v","2",".",
      "c","l","o","u","d","v","i","s","i","o","n","_",
      "p","a","r","t","i","t","i","o","n","e","d">>

LowerCase ==
    <<"a","b","c","d","e","f","g","h","i","j","k","l","m",
      "n","o","p","q","r","s","t","u","v","w","x","y","z">>

UpperCase ==
    <<"A","B","C","D","E","F","G","H","I","J","K","L","M",
      "N","O","P","Q","R","S","T","U","V","W","X","Y","Z">>

UpperChar(c) ==
    IF \E i \in 1..26 : LowerCase[i] = c
    THEN UpperCase[CHOOSE i \in 1..26 : LowerCase[i] = c]
    ELSE c

\* s.upper()
Upper(s) == [i \in 1..Len(s) |-> UpperChar(s[i])]

\* \s
IsSpace(c) == c \in {" ", "\t", "\n", "\r", "\f"}

\* \d
IsDigit(c) == c \in {"0","1","2","3","4","5","6","7","8","9"}

\* \s* from position j: the position after the longest run of whitespace
SkipSpaces(s, j) ==
    CHOOSE k \in j..(Len(s) + 1) :
        /\ \A m \in j..(k - 1) : IsSpace(s[m])
        /\ (k = Len(s) + 1 \/ ~IsSpace(s[k]))

\* >=? from the position of ">": the position after the operator
AfterOperator(s, gt) ==
    IF gt + 1 <= Len(s) /\ s[gt + 1] = "=" THEN gt + 2 ELSE gt + 1

\* (\d{n}) at position grp: grp when n digits stand there, or 0
DigitsAt(n, s, grp) ==
    IF /\ grp + n - 1 <= Len(s)
       /\ \A k \in grp..(grp + n - 1) : IsDigit(s[k])
    THEN grp
    ELSE 0

\* >=?\s*(\d{n}) at position gt: where the group starts, or 0
OperatorAt(n, s, gt) ==
    IF gt > Len(s) THEN 0
    ELSE IF s[gt] # ">" THEN 0
    ELSE DigitsAt(n, s, SkipSpaces(s, AfterOperator(s, gt)))

\* NAME\s*>=?\s*(\d{n}) tried at position i: where the group starts, or 0
MatchAt(name, n, s, i) ==
    IF i + Len(name) - 1 > Len(s) THEN 0
    ELSE IF Upper(SubSeq(s, i, i + Len(name) - 1)) # name THEN 0
    ELSE OperatorAt(n, s, SkipSpaces(s, i + Len(name)))

\* the positions at which the pattern matches
MatchStarts(name, n, s) == { i \in 1..Len(s) : MatchAt(name, n, s, i) # 0 }

Leftmost(starts) == CHOOSE i \in starts : \A j \in starts : i <= j

Rightmost(starts) == CHOOSE i \in starts : \A j \in starts : i >= j

\* match.group(1) of the match that starts at position i
Group(name, n, s, i) ==
    SubSeq(s, MatchAt(name, n, s, i), MatchAt(name, n, s, i) + n - 1)

\* a search that keeps the rightmost match
re_search_rightmost(name, n, s) ==
    IF MatchStarts(name, n, s) = {} THEN None
    ELSE Group(name, n, s, Rightmost(MatchStarts(name, n, s)))

\* re.search(...): match.group(1) of the leftmost match, or None
re_search(name, n, s) ==
    IF MatchStarts(name, n, s) = {} THEN None
    ELSE Group(name, n, s, Leftmost(MatchStarts(name, n, s)))

SQLDATE == <<"S","Q","L","D","A","T","E">>

DATE == <<"D","A","T","E">>

PARTITIONTIME == <<"_","P","A","R","T","I","T","I","O","N","T","I","M","E">>

\* f"{date_str[:4]}-{date_str[4:6]}-{date_str[6:8]}"
formatted_date(date_str) ==
    SubSeq(date_str, 1, 4) \o <<"-">> \o SubSeq(date_str, 5, 6) \o <<"-">>
        \o SubSeq(date_str, 7, 8)

\* f"_PARTITIONTIME >= '{formatted_date}'"
partition_predicate(date_str) ==
    PARTITIONTIME \o <<" ",">","="," ","'">> \o formatted_date(date_str) \o <<"'">>

\* if match: return the predicate of match.group(1)
predicate_of(match) ==
    IF match # None THEN partition_predicate(match) ELSE None

\* the statements after the table branches: None on both paths
already_partitioned(where_clause) ==
    IF Contains(Upper(where_clause), PARTITIONTIME)
    THEN None      \* already has a partition filter
    ELSE None

\* a branch's return value, or what the statements after it return
or_fall_through(returned, where_clause) ==
    IF returned # None THEN returned ELSE already_partitioned(where_clause)

_extract_partition_filter(where_clause, table) ==
    IF ~Truthy(where_clause) THEN None
    ELSE IF Contains(table, <<"e","v","e","n","t","s">>)
    THEN or_fall_through(predicate_of(re_search(SQLDATE, 8, where_clause)),
                         where_clause)
    ELSE IF Contains(table, <<"g","k","g">>)
    THEN or_fall_through(predicate_of(re_search(DATE, 14, where_clause)),
                         where_clause)
    ELSE already_partitioned(where_clause)

(***************************************************************************)
(* Partition-filter inference on its own.  A filter is one or two          *)
(* comparisons "<col><ws><op><ws><lit>" joined by " AND "; the request     *)
(* keeps the comparisons beside the text handed to the function.           *)
(***************************************************************************)
Tables == { EVENTS_TABLE, EVENTMENTIONS_TABLE, GKG_TABLE, CLOUDVISION_TABLE }

D7   == <<"2","0","2","4","0","1","0">>
D8a  == <<"2","0","2","4","0","1","3","1">>
D8b  == <<"2","0","2","5","1","2","0","2">>
D14a == <<"2","0","2","4","0","1","3","1","2","3","5","9","5","9">>
D14b == <<"2","0","2","5","1","2","0","2","0","0","0","0","0","0">>
D9   == <<"2","0","2","2","1","1","2","0","7">>
D15  == <<"2","0","2","2","1","1","2","0","0","0","0","0","0","0","7">>

Term(col, ws, op, lit) == [col |-> col, ws |-> ws, op |-> op, lit |-> lit]

TermText(t) == t.col \o t.ws \o t.op \o t.ws \o t.lit

DateColumns ==
    { SQLDATE, <<"s","q","l","d","a","t","e">>, DATE, <<"d","a","t","e">>,
      <<"E","v","e","n","t","T","i","m","e","D","a","t","e">> }

Spacings == { <<>>, <<" ">>, <<"\t"," ">> }

Comparisons == { <<">","=">>, <<"=">>, <<">">>, <<"<">> }

DateLiterals == { D7, D8a, D8b, D9, D14a, D14b, D15 }

DateTerms ==
    { Term(c, w, o, l) :
        c \in DateColumns, w \in Spacings, o \in Comparisons, l \in DateLiterals }

\* what may stand beside a date comparison
SecondTerms ==
    { Term(<<"E","v","e","n","t","C","o","d","e">>, <<" ">>, <<"=">>, <<"'","1","9","'">>),
      Term(PARTITIONTIME, <<" ">>, <<">","=">>,
           <<"'","2","0","2","0","-","0","1","-","0","1","'">>),
      Term(<<"_","p","a","r","t","i","t","i","o","n","t","i","m","e">>, <<" ">>, <<">">>,
           <<"'","2","0","2","0","-","0","1","-","0","1","'">>),
      Term(SQLDATE, <<" ">>, <<"B","E","T","W","E","E","N">>,
           <<"2","0","2","3","0","1","0","1"," ","A","N","D"," ",
             "2","0","2","3","0","1","3","1">>),
      Term(SQLDATE, <<" ">>, <<">","=">>, <<"2","0","2","3","0","6","1","5">>),
      Term(SQLDATE, <<" ">>, <<">">>, <<"2","0","2","3","0","6","1","5">>),
      Term(DATE, <<" ">>, <<">","=">>,
           <<"2","0","2","3","0","6","1","5","0","0","0","0","0","0">>),
      Term(DATE, <<" ">>, <<">">>,
           <<"2","0","2","3","0","6","1","5","0","0","0","0","0","0">>) }

Filters ==
    { <<>> }
    \cup { <<t>> : t \in DateTerms \cup SecondTerms }
    \cup { <<t, u>> : t \in DateTerms, u \in SecondTerms }
    \cup { <<u, t>> : t \in DateTerms, u \in SecondTerms }

AND == <<" ","A","N","D"," ">>

FilterText(terms) == Join([i \in 1..Len(terms) |-> TermText(terms[i])], AND)

InitPartition ==
    /\ \E terms \in Filters, table \in Tables :
          request = [call |-> "_extract_partition_filter",
                     terms |-> terms,
                     where_clause |-> FilterText(terms),
                     table |-> table]
    /\ environ = EnvUnset
    /\ session = <<>>
    /\ jobs = <<>>
    /\ result = Pending
    /\ warehouse = EmptyWarehouse
    /\ now = 0

ExtractPartitionFilter ==
    /\ request.call = "_extract_partition_filter"
    /\ ~result.returned
    /\ result' = Returned(_extract_partition_filter(request.where_clause, request.table))
    /\ UNCHANGED <<environ, request, session, jobs, warehouse, now>>

NextPartition == ExtractPartitionFilter

SpecPartition == InitPartition /\ [][NextPartition]_vars

(***************************************************************************)
(* Claims C4 and C5.                                                       *)
(***************************************************************************)
Extracted == request.call = "_extract_partition_filter" /\ result.returned

\* _PARTITIONTIME >= 'YYYY-MM-DD' from the first eight digits of a literal
ClaimedPredicate(lit) ==
    <<"_","P","A","R","T","I","T","I","O","N","T","I","M","E"," ",">","="," ","'",
      lit[1], lit[2], lit[3], lit[4], "-", lit[5], lit[6], "-", lit[7], lit[8], "'">>

AllDigits(lit) == \A i \in 1..Len(lit) : IsDigit(lit[i])

\* the comparison reads "...<name> <op> <digits>", any case, any spacing
Compares(t, name, opset) ==
    /\ EndsWith(Upper(t.col), name)
    /\ t.op \in opset
    /\ AllDigits(t.lit)

TermsOf(req) == { req.terms[i] : i \in 1..Len(req.terms) }

\* C4 as claimed: for every filter on the events table that contains
\* SQLDATE >= YYYYMMDD or SQLDATE = YYYYMMDD (any letter case, any whitespace
\* around the operator), inference returns _PARTITIONTIME >= 'YYYY-MM-DD'
\* built from that literal's year, month and day digits.
C4_AsClaimed ==
    (Extracted /\ request.table = EVENTS_TABLE) =>
        LET hits == { t \in TermsOf(request) :
                        Compares(t, SQLDATE, {<<">","=">>, <<"=">>}) /\ Len(t.lit) = 8 }
        IN hits # {} =>
               \E t \in hits : result.value = ClaimedPredicate(t.lit)

DigitChars == <<"0","1","2","3","4","5","6","7","8","9">>

RECURSIVE NatToStr(_)
NatToStr(n) ==
    IF n < 10 THEN <<DigitChars[n + 1]>>
    ELSE NatToStr(n \div 10) \o <<DigitChars[(n % 10) + 1]>>

\* f"{n}" for an int
IntToStr(n) == IF n < 0 THEN <<"-">> \o NatToStr(-n) ELSE NatToStr(n)

\* int(text) for an optional sign and digits
RECURSIVE DigitsValue(_)
DigitsValue(text) ==
    IF text = <<>> THEN 0
    ELSE DigitsValue(SubSeq(text, 1, Len(text) - 1)) * 10
            + (CHOOSE d \in 0..9 : DigitChars[d + 1] = text[Len(text)])

StrToInt(text) ==
    IF text # <<>> /\ text[1] = "-" THEN 0 - DigitsValue(Tail(text))
    ELSE DigitsValue(text)

Min(a, b) == IF a <= b THEN a ELSE b

Max(a, b) == IF a >= b THEN a ELSE b

\* GDELTBigQueryClient.__init__: the tools never pass credentials_path, so
\* the branches are explicit parameters, the environment, default credentials
GDELTBigQueryClient(project_id, private_key, client_email, env) ==
    LET pid == IF Truthy(project_id) THEN project_id ELSE env.GCP_PROJECT_ID
    IN IF Truthy(private_key) /\ Truthy(client_email)
       THEN [project_id   |-> pid,
             private_key  |-> Replace(private_key, <<"\\","n">>, <<"\n">>),
             client_email |-> client_email]
       ELSE IF Truthy(env.GCP_PRIVATE_KEY) /\ Truthy(env.GCP_CLIENT_EMAIL)
       THEN [project_id   |-> pid,
             private_key  |-> Replace(env.GCP_PRIVATE_KEY, <<"\\","n">>, <<"\n">>),
             client_email |-> env.GCP_CLIENT_EMAIL]
       ELSE [project_id |-> pid, private_key |-> None, client_email |-> None]

\* one call on self.client: the API, its text and the identity it runs under
Job(api, text, client) ==
    [api |-> api, text |-> text,
     project_id |-> client.project_id, client_email |-> client.client_email]

\* the rows a finished query job yields
Rows(n) == [i \in 1..n |-> [row |-> i]]

SELECT == <<"S","E","L","E","C","T"," ">>
\* the character U+0060 (grave accent) that quotes a table name, which a
\* TLA+ string cannot hold, is written ^ (no input contains ^)
BACKQUOTE == "^"

FROM == <<" ","F","R","O","M"," ",BACKQUOTE>>
WHERE == <<" ","W","H","E","R","E"," ">>
LIMIT == <<" ","L","I","M","I","T"," ">>

\* the WHERE clause with the caller's filter ahead of the predicate
where_of_filter_first(where_clause, partition_filter) ==
    IF Truthy(partition_filter)
    THEN WHERE \o <<"(">> \o where_clause \o <<")"," ","A","N","D"," ">>
               \o partition_filter
    ELSE WHERE \o where_clause

\* the WHERE clause of a non-empty filter, given the inferred predicate
where_of(where_clause, partition_filter) ==
    IF Truthy(partition_filter)
    THEN WHERE \o partition_filter \o <<" ","A","N","D"," ","(">>
               \o where_clause \o <<")">>
    ELSE WHERE \o where_clause

\* the statement GDELTBigQueryClient.query builds
query_sql(table, where_clause, select_fields, limit) ==
    SELECT \o select_fields \o FROM \o table \o <<BACKQUOTE>>
        \o (IF Truthy(where_clause)
            THEN where_of(where_clause,
                          _extract_partition_filter(where_clause, table))
            ELSE <<>>)
        \o LIMIT \o IntToStr(limit)

\* GDELTBigQueryClient.query: one job; RuntimeError when the job fails
query(client, table, where_clause, select_fields, limit, ext) ==
    [jobs   |-> <<Job("query",
                      query_sql(table, where_clause, select_fields, limit),
                      client)>>,
     raised |-> ~ext.job_ok,
     rows   |-> Rows(Min(ext.rows, Max(limit, 0)))]

(***************************************************************************)
(* tools/query_tools.py                                                    *)
(***************************************************************************)
\* the limit handed on as it was requested
uncapped(limit) == limit

\* limit = min(limit, 10000)
capped(limit) == Min(limit, 10000)

\* a handler that ends before it has a client
NoEffects(value) == [session |-> <<>>, jobs |-> <<>>, value |-> value]

QueryFailed(help) ==
    [error |-> "Query failed", message |-> "<str(e)>", help |-> help]

HelpCredentials ==
    "Verify your GCP credentials have BigQuery access to gdelt-bq.gdeltv2 dataset"

\* the RuntimeError of client.query leaves the tool instead of a result
results_or_raise(client, q, help) ==
    [session |-> <<client>>, jobs |-> q.jobs,
     value |-> IF q.raised
               THEN <<[raised |-> "RuntimeError: BigQuery query failed"]>>
               ELSE q.rows]

\* try: return results / except Exception: the one-element error list
results_or_error(client, q, help) ==
    [session |-> <<client>>, jobs |-> q.jobs,
     value |-> IF q.raised THEN <<QueryFailed(help)>> ELSE q.rows]

\* client.query(table=..., limit=limit) on the client just built
query_with(client, table, where_clause, select_fields, limit, ext) ==
    results_or_error(client,
                     query(client, table, where_clause, select_fields, limit, ext),
                     HelpCredentials)

\* the body shared by the four query_*_impl: build the client, cap the limit,
\* run client.query, turn any exception into a one-element error list
query_table_impl(credentials, table, where_clause, select_fields, limit, env, ext) ==
    IF ~ext.client_ok THEN NoEffects(<<QueryFailed(HelpCredentials)>>)
    ELSE query_with(GDELTBigQueryClient(credentials[1], credentials[2],
                                        credentials[3], env),
                    table, where_clause, select_fields, capped(limit), ext)

\* order_by is accepted and not passed on to client.query
query_events_impl(credentials, where_clause, select_fields, limit, order_by, env, ext) ==
    query_table_impl(credentials, EVENTS_TABLE, where_clause, select_fields,
                     limit, env, ext)

query_eventmentions_impl(credentials, where_clause, select_fields, limit, env, ext) ==
    query_table_impl(credentials, EVENTMENTIONS_TABLE, where_clause,
                     select_fields, limit, env, ext)

query_gkg_impl(credentials, where_clause, select_fields, limit, env, ext) ==
    query_table_impl(credentials, GKG_TABLE, where_clause, select_fields,
                     limit, env, ext)

query_cloudvision_impl(credentials, where_clause, select_fields, limit, env, ext) ==
    query_table_impl(credentials, CLOUDVISION_TABLE, where_clause,
                     select_fields, limit, env, ext)

(***************************************************************************)
(* server.py: the tool entry points.  Each resolves the credentials        *)
(* (token first, then the environment), answers "Authentication required"  *)
(* when there are none, and otherwise returns what its _impl returns.      *)
(***************************************************************************)
AuthRequired ==
    [error   |-> "Authentication required",
     message |-> "Please provide a valid Bearer token or set GCP environment variables"]

\* if credentials: return credentials; else the token source
or_from_token(credentials, authorization) ==
    IF credentials # None THEN credentials
    ELSE get_credentials_from_token(authorization)

\* the resolution with the two sources in the other order
credentials_env_first(authorization, env) ==
    or_from_token(get_credentials_from_env(env), authorization)

\* credentials = get_credentials_from_token()
\* if not credentials: credentials = get_credentials_from_env()
credentials_of(authorization, env) ==
    or_from_env(get_credentials_from_token(authorization), env)

query_events(authorization, where_clause, select_fields, limit, order_by, env, ext) ==
    LET credentials == credentials_of(authorization, env)
    IN IF credentials = None THEN NoEffects(<<AuthRequired>>)
       ELSE query_events_impl(credentials, where_clause, select_fields,
                              limit, order_by, env, ext)

query_eventmentions(authorization, where_clause, select_fields, limit, env, ext) ==
    LET credentials == credentials_of(authorization, env)
    IN IF credentials = None THEN NoEffects(<<AuthRequired>>)
       ELSE query_eventmentions_impl(credentials, where_clause, select_fields,
                                     limit, env, ext)

query_gkg(authorization, where_clause, select_fields, limit, env, ext) ==
    LET credentials == credentials_of(authorization, env)
    IN IF credentials = None THEN NoEffects(<<AuthRequired>>)
       ELSE query_gkg_impl(credentials, where_clause, select_fields,
                           limit, env, ext)

query_cloudvision(authorization, where_clause, select_fields, limit, env, ext) ==
    LET credentials == credentials_of(authorization, env)
    IN IF credentials = None THEN NoEffects(<<AuthRequired>>)
       ELSE query_cloudvision_impl(credentials, where_clause, select_fields,
                                   limit, env, ext)

(***************************************************************************)
(* The server serving one tool call: the environment and the warehouse     *)
(* are as the deployment left them, a caller sends one call with its       *)
(* Authorization header and arguments, and the handler runs to its return. *)
(***************************************************************************)
MaxRows == 2

TokenTriple ==
    << <<"p">>, PEM_HEADER \o <<"\\","n","k">>, <<"a","@","p">> >>

EnvTriple ==
    << <<"e">>, PEM_HEADER \o <<"k">>, <<"b","@","e">> >>

\* no header, a well-formed token, a token of two fields
Authorizations ==
    { <<>>, BEARER \o Join(TokenTriple, <<"|">>), BEARER \o <<"x","|","y">> }

\* nothing set, a full identity, a private key that is not PEM
Environs ==
    { EnvUnset, EnvOf(EnvTriple),
      EnvOf(<< <<"e">>, <<"k">>, <<"b","@","e">> >>) }

WhereClauses ==
    { None, <<>>,
      <<"S","Q","L","D","A","T","E"," ",">","="," ","2","0","2","4","0","1",
        "3","1">>,
      <<"D","A","T","E"," ",">","="," ","2","0","2","4","0","1","3","1","2",
        "3","5","9","5","9">>,
      <<"E","v","e","n","t","C","o","d","e"," ","="," ","'","1","9","'">>,
      <<"_","P","A","R","T","I","T","I","O","N","T","I","M","E"," ",">","=",
        " ","'","2","0","2","4","-","0","1","-","0","1","'"," ","A","N",
        "D"," ","S","Q","L","D","A","T","E"," ",">"," ","2","0","2","4",
        "0","1","3","1">> }

SelectFields == { <<"*">>, <<"S","Q","L","D","A","T","E",","," ","A","c","t",
                             "o","r","1","N","a",
                             "m","e">> }

\* the limit argument: <<>> when the caller leaves it out
Limits == { <<>>, <<-1>>, <<0>>, <<5>>, <<10000>>, <<10001>>, <<50000>> }

OrderBys == { None, <<"S","Q","L","D","A","T","E"," ","D","E","S","C">> }

\* what the libraries and the warehouse do to a query: the client cannot be
\* built, the job fails, or the job yields up to MaxRows rows
Externals ==
    { [client_ok |-> FALSE, job_ok |-> TRUE, rows |-> 0],
      [client_ok |-> TRUE, job_ok |-> FALSE, rows |-> 0] }
    \cup [client_ok : {TRUE}, job_ok : {TRUE}, rows : 0..MaxRows]

Idle == request.call = "idle"

\* the handler's effects become the state after its return
Return(effects) ==
    /\ session' = effects.session
    /\ jobs' = effects.jobs
    /\ result' = Returned(effects.value)

QueryEvents ==
    /\ Idle
    /\ \E authorization \in Authorizations, where_clause \in WhereClauses,
          select_fields \in SelectFields, limit \in Limits,
          order_by \in OrderBys, ext \in Externals :
          /\ request' = [call |-> "query_events",
                         authorization |-> authorization,
                         where_clause |-> where_clause,
                         select_fields |-> select_fields,
                         limit |-> limit, order_by |-> order_by]
          /\ \E effects \in
                 { query_events(authorization, where_clause, select_fields,
                   IF limit = <<>> THEN 100 ELSE limit[1],
                   order_by, environ, ext) } :
                 Return(effects)
    /\ UNCHANGED <<environ, warehouse, now>>

QueryEventMentions ==
    /\ Idle
    /\ \E authorization \in Authorizations, where_clause \in WhereClauses,
          select_fields \in SelectFields, limit \in Limits, ext \in Externals :
          /\ request' = [call |-> "query_eventmentions",
                         authorization |-> authorization,
                         where_clause |-> where_clause,
                         select_fields |-> select_fields, limit |-> limit]
          /\ \E effects \in
                 { query_eventmentions(authorization, where_clause,
                   select_fields,
                   IF limit = <<>> THEN 100 ELSE limit[1],
                   environ, ext) } :
                 Return(effects)
    /\ UNCHANGED <<environ, warehouse, now>>

QueryGkg ==
    /\ Idle
    /\ \E authorization \in Authorizations, where_clause \in WhereClauses,
          select_fields \in SelectFields, limit \in Limits, ext \in Externals :
          /\ request' = [call |-> "query_gkg",
                         authorization |-> authorization,
                         where_clause |-> where_clause,
                         select_fields |-> select_fields, limit |-> limit]
          /\ \E effects \in
                 { query_gkg(authorization, where_clause, select_fields,
                   IF limit = <<>> THEN 100 ELSE limit[1],
                   environ, ext) } :
                 Return(effects)
    /\ UNCHANGED <<environ, warehouse, now>>

QueryCloudVision ==
    /\ Idle
    /\ \E authorization \in Authorizations, where_clause \in WhereClauses,
          select_fields \in SelectFields, limit \in Limits, ext \in Externals :
          /\ request' = [call |-> "query_cloudvision",
                         authorization |-> authorization,
                         where_clause |-> where_clause,
                         select_fields |-> select_fields, limit |-> limit]
          /\ \E effects \in
                 { query_cloudvision(authorization, where_clause,
                   select_fields,
                   IF limit = <<>> THEN 100 ELSE limit[1],
                   environ, ext) } :
                 Return(effects)
    /\ UNCHANGED <<environ, warehouse, now>>

(***************************************************************************)
(* Cost estimation.  Python computes on floats; the model keeps            *)
(*   gb_processed        as a count of hundredths of a GiB, and            *)
(*   estimated_cost_usd  as a count of ten-thousandths of a dollar,        *)
(* and computes both from the byte count in integers.  b / 1024**3 is      *)
(* exact in a double, and round() rounds the exact value to the nearest    *)
(* multiple, ties to even.  gb_processed * 0.005 is off the exact value by *)
(* less than 1e-18 for byte counts below 2^31, so its rounding is the      *)
(* rounding of the exact value except at the ties b = odd * 2^28, where    *)
(* the double decides (CostTies).                                          *)
(***************************************************************************)
\* b * 25 = q * 2^p + r with 0 <= r < 2^p, for 16 <= p, without leaving
\* 32 bits: b * 100 / 2^30 = b * 25 / 2^28, b * 50 / 2^30 = b * 25 / 2^29
Times25Over(b, p) ==
    LET bh == b \div 65536
        bl == b % 65536
        hi == bh * 25 + (bl * 25) \div 65536
        lo == (bl * 25) % 65536
    IN [q |-> hi \div 2^(p - 16), r |-> (hi % 2^(p - 16)) * 65536 + lo]

\* round(bytes_processed / (1024 ** 3), 2), in hundredths
gb_processed(bytes_processed) ==
    LET d == Times25Over(bytes_processed, 28)
    IN IF d.r > 2^27 THEN d.q + 1
       ELSE IF d.r < 2^27 THEN d.q
       ELSE IF d.q % 2 = 0 THEN d.q ELSE d.q + 1

\* round(x * 0.005, 4) in ten-thousandths for x = 0.25, 0.75, 1.25, 1.75
CostTies ==
    (268435456 :> 13) @@ (805306368 :> 37) @@ (1342177280 :> 63)
        @@ (1879048192 :> 88)

\* the cost computed from the rounded gb_processed: half of the hundredths
cost_of_rounded_gb(bytes_processed) ==
    LET m == gb_processed(bytes_processed)
    IN IF m % 2 = 0 \/ m % 4 = 1 THEN m \div 2 ELSE m \div 2 + 1

\* round(gb_processed * 0.005, 4) of the unrounded quotient, in
\* ten-thousandths
estimated_cost_usd(bytes_processed) ==
    LET d == Times25Over(bytes_processed, 29)
    IN IF d.r > 2^28 THEN d.q + 1
       ELSE IF d.r < 2^28 THEN d.q
       ELSE CostTies[bytes_processed]

\* the warehouse's answer to a statement whose WHERE keyword has nothing but
\* white space after it: a syntax error
SyntaxError(sql) ==
    \E i \in 1..Len(sql) :
        /\ i + 4 <= Len(sql)
        /\ SubSeq(sql, i, i + 4) = <<"W","H","E","R","E">>
        /\ \A j \in (i + 5)..Len(sql) : sql[j] \in {" ", "\n"}

\* GDELTBigQueryClient.estimate_query_cost: one dry run; an exception
\* becomes {"error": str(e)}
client_estimate_query_cost(client, sql, ext) ==
    [jobs  |-> <<Job("dry_run", sql, client)>>,
     value |-> IF ~ext.job_ok \/ SyntaxError(sql) THEN [error |-> "<str(e)>"]
               ELSE [bytes_processed    |-> ext.bytes,
                     gb_processed       |-> gb_processed(ext.bytes),
                     estimated_cost_usd |-> estimated_cost_usd(ext.bytes)]]

(***************************************************************************)
(* tools/cost_optimization.py: estimate_query_cost_impl                    *)
(***************************************************************************)
table_map ==
    [events |-> EVENTS_TABLE, eventmentions |-> EVENTMENTIONS_TABLE,
     gkg |-> GKG_TABLE, cloudvision |-> CLOUDVISION_TABLE]

InvalidTable ==
    [error |-> "Invalid table name. Must be one of: events, eventmentions, gkg, cloudvision"]

\* the advisory texts, without their leading emoji
HIGH_COST ==
    "HIGH COST: This query will scan >1GB. Consider adding date filters or using materialization."

MODERATE_COST ==
    "MODERATE COST: Consider tightening date filters or selecting fewer fields."

LOW_COST == "LOW COST: This query is well-optimized."

\* the statement whose scan is estimated: no partition predicate, LIMIT 1000
estimate_sql(full_table, where_clause, select_fields) ==
    SELECT \o select_fields \o FROM \o full_table \o <<BACKQUOTE>>
        \o (IF Truthy(where_clause) THEN WHERE \o where_clause ELSE <<>>)
        \o LIMIT \o <<"1","0","0","0">>

\* the advisory chosen on the returned (rounded) gb_processed: > 1.0, > 0.1
advise(cost_info) ==
    IF "gb_processed" \notin DOMAIN cost_info THEN cost_info
    ELSE IF cost_info.gb_processed > 100
    THEN cost_info @@ [warning |-> HIGH_COST]
    ELSE IF cost_info.gb_processed > 10
    THEN cost_info @@ [info |-> MODERATE_COST]
    ELSE cost_info @@ [info |-> LOW_COST]

estimate_query_cost_impl(credentials, table, where_clause, select_fields, env, ext) ==
    LET client == GDELTBigQueryClient(credentials[1], credentials[2],
                                      credentials[3], env)
        e == client_estimate_query_cost(
                 client,
                 estimate_sql(table_map[table], where_clause, select_fields),
                 ext)
    IN IF ~ext.client_ok
       THEN NoEffects([error |-> "Cost estimation failed",
                       message |-> "<str(e)>"])
       ELSE IF table \notin DOMAIN table_map
       THEN [session |-> <<client>>, jobs |-> <<>>, value |-> InvalidTable]
       ELSE [session |-> <<client>>, jobs |-> e.jobs, value |-> advise(e.value)]

estimate_query_cost(authorization, table, where_clause, select_fields, env, ext) ==
    LET credentials == credentials_of(authorization, env)
    IN IF credentials = None THEN NoEffects(AuthRequired)
       ELSE estimate_query_cost_impl(credentials, table, where_clause,
                                     select_fields, env, ext)

TableNames == { "events", "eventmentions", "gkg", "cloudvision", "mentions" }

\* dry-run byte counts: nothing, below 0.1 GiB, 1 GiB, above 1 GiB
DryRunBytes == { 0, 53687091, 2^30, 1288490189 }

EstimateExternals ==
    { [client_ok |-> FALSE, job_ok |-> TRUE, bytes |-> 0],
      [client_ok |-> TRUE, job_ok |-> FALSE, bytes |-> 0] }
    \cup [client_ok : {TRUE}, job_ok : {TRUE}, bytes : DryRunBytes]

EstimateQueryCost ==
    /\ Idle
    /\ \E authorization \in Authorizations, table \in TableNames,
          where_clause \in WhereClauses, select_fields \in SelectFields,
          ext \in EstimateExternals :
          /\ request' = [call |-> "estimate_query_cost",
                         authorization |-> authorization,
                         table |-> table,
                         where_clause |-> where_clause,
                         select_fields |-> select_fields]
          /\ \E effects \in
                 { estimate_query_cost(authorization, table, where_clause,
                   select_fields, environ, ext) } :
                 Return(effects)
    /\ UNCHANGED <<environ, warehouse, now>>

(***************************************************************************)
(* bigquery_client.py: materialized subsets.                               *)
(*                                                                         *)
(* The warehouse holds, per project, whether the gdelt_subsets dataset     *)
(* exists and, per subset name, <<>> or <<table>> with                     *)
(*   expires      <<>> or <<t>>, t on the clock now,                       *)
(*   description  text, <<>> when none,                                    *)
(*   num_rows     the rows the creation statement wrote.                   *)
(* The clock counts half-seconds, finer than the whole seconds that        *)
(* strftime keeps.  A call on a table that does not exist fails in the     *)
(* warehouse; any call may also fail for a reason outside the model (ext). *)
(***************************************************************************)
HOUR == 7200

GDELT_SUBSETS == <<".","g","d","e","l","t","_","s","u","b","s","e","t","s">>

\* a location that leaves the project out
table_id_without_project(client, subset_name) ==
    <<"g","d","e","l","t","_","s","u","b","s","e","t","s",".">> \o subset_name

\* f"{self.project_id}.gdelt_subsets.{subset_name}"
table_id_of(client, subset_name) ==
    client.project_id \o GDELT_SUBSETS \o <<".">> \o subset_name

TableExists(wh, client, subset_name) ==
    /\ client.project_id \in DOMAIN wh
    /\ subset_name \in DOMAIN wh[client.project_id].tables
    /\ wh[client.project_id].tables[subset_name] # <<>>

TableOf(wh, client, subset_name) ==
    wh[client.project_id].tables[subset_name][1]

INDENT == <<" "," "," "," "," "," "," "," "," "," "," "," ">>

\* the creation statement up to its WHERE line
create_query_head(table_id, source_table, select_fields) ==
    <<"\n">> \o INDENT \o <<"C","R","E","A","T","E"," ","O","R"," ","R","E",
                            "P","L","A","C","E"," ",
                            "T","A","B","L","E",
                            " ">> \o <<BACKQUOTE>>
        \o table_id \o <<BACKQUOTE>> \o <<" ","A","S","\n">>
        \o INDENT \o <<"S","E","L","E","C","T"," ">> \o select_fields \o <<"\n">>
        \o INDENT \o <<"F","R","O","M"," ">> \o <<BACKQUOTE>> \o source_table
        \o <<BACKQUOTE, "\n">>

\* a creation statement that leaves the WHERE line out for an empty filter
create_query_optional_where(table_id, source_table, where_clause, select_fields) ==
    create_query_head(table_id, source_table, select_fields)
        \o (IF Truthy(where_clause)
            THEN INDENT \o <<"W","H","E","R","E"," ">> \o where_clause \o <<"\n">>
            ELSE <<>>)
        \o INDENT

create_query_of(table_id, source_table, where_clause, select_fields) ==
    create_query_head(table_id, source_table, select_fields)
        \o INDENT \o <<"W","H","E","R","E"," ">> \o where_clause \o <<"\n">> \o INDENT

alter_query_of(table_id, expiration_timestamp) ==
    <<"\n">> \o INDENT \o <<"A","L","T","E","R"," ","T","A","B","L","E"," ">> \o <<BACKQUOTE>> \o table_id
        \o <<BACKQUOTE, "\n">>
        \o INDENT \o <<"S","E","T"," ","O","P","T","I","O","N","S","(","\n">>
        \o INDENT \o <<" "," "," "," ","e","x","p","i","r","a","t","i","o",
                       "n","_","t","i","m","e","s","t",
                       "a","m","p"," ","="," ">> \o expiration_timestamp
        \o <<"\n">> \o INDENT \o <<")", "\n">> \o INDENT

\* the instant the warehouse computes for the expression below at time t
timestamp_add_default(t, expiration_hours) == t + 48 * HOUR

timestamp_add_at(t, expiration_hours) == t + expiration_hours * HOUR

\* f"TIMESTAMP_ADD(CURRENT_TIMESTAMP(), INTERVAL {expiration_hours} HOUR)"
timestamp_add(expiration_hours) ==
    <<"T","I","M","E","S","T","A","M","P","_","A","D","D","(","C","U","R","R",
      "E","N","T","_","T","I","M","E","S","T","A","M","P","(",")",","," ",
      "I","N","T","E","R","V","A","L"," ">>
        \o IntToStr(expiration_hours) \o <<" ","H","O","U","R",")">>

\* a creation statement that leaves a table of the name as it is
create_table_if_not_exists(wh, pid, subset_name, rows) ==
    IF wh[pid].tables[subset_name] # <<>> THEN wh
    ELSE [wh EXCEPT ![pid].tables[subset_name] =
             << [expires |-> <<>>, description |-> <<>>, num_rows |-> rows] >>]

\* CREATE OR REPLACE TABLE: the table of the name, whether or not there was
\* one, is a new table of the selected rows, without expiration or description
create_or_replace_table(wh, pid, subset_name, rows) ==
    [wh EXCEPT ![pid].tables[subset_name] =
        << [expires |-> <<>>, description |-> <<>>, num_rows |-> rows] >>]

\* SELECT <select_fields> FROM <source_table> WHERE <where_clause>
select_portion(source_table, where_clause, select_fields) ==
    SELECT \o select_fields \o FROM \o source_table \o <<BACKQUOTE>>
        \o WHERE \o where_clause

\* an estimate asked for the select portion of the creation statement
estimated_select_portion(create_query, source_table, where_clause, select_fields) ==
    select_portion(source_table, where_clause, select_fields)

\* self.estimate_query_cost(create_query)
estimated_statement(create_query, source_table, where_clause, select_fields) ==
    create_query

\* a handler that drops the table of a create that failed
dropped_after_failure(w, pid, subset_name) ==
    [w EXCEPT ![pid].tables[subset_name] = <<>>]

\* except Exception as e: return {...}: the handler leaves the warehouse as
\* the calls before the failure made it
left_after_failure(w, pid, subset_name) == w

\* a creation that is run only when the dry run gave an estimate
run_creation_if_estimated(j, cost, create_query, client) ==
    IF "error" \in DOMAIN cost.value THEN j
    ELSE j \o <<Job("query", create_query, client)>>

\* query_job = self.client.query(create_query), whatever the estimate was
run_creation(j, cost, create_query, client) ==
    j \o <<Job("query", create_query, client)>>

HelpPartition ==
    "Ensure your WHERE clause includes date filters for partition pruning"

\* GDELTBigQueryClient.create_materialized_subset: ensure the dataset, dry-run
\* and run the creation statement, read the table, set its expiration, set
\* its description; the first failing call ends it with status error
client_create_materialized_subset(client, wh, t, source_table, subset_name, where_clause, select_fields, description, expiration_hours, ext) ==
    LET pid == client.project_id
        dataset_id == pid \o GDELT_SUBSETS
        table_id == table_id_of(client, subset_name)
        create_query ==
            create_query_of(table_id, source_table, where_clause, select_fields)
        alter_query ==
            alter_query_of(table_id, timestamp_add(expiration_hours))
        cost == client_estimate_query_cost(
                    client,
                    estimated_statement(create_query, source_table,
                                        where_clause, select_fields),
                    ext)
        j1 == <<Job("create_dataset", dataset_id, client)>>
        j2 == j1 \o cost.jobs
        j3 == run_creation(j2, cost, create_query, client)
        j4 == j3 \o <<Job("get_table", table_id, client)>>
        j5 == j4 \o <<Job("query", alter_query, client)>>
        j6 == j5 \o <<Job("update_table", table_id, client)>>
        w1 == IF ext.dataset_error = "none"
              THEN [wh EXCEPT ![pid].dataset = TRUE] ELSE wh
        w3 == create_or_replace_table(w1, pid, subset_name, ext.rows)
        w5 == [w3 EXCEPT ![pid].tables[subset_name] =
                  << [w3[pid].tables[subset_name][1] EXCEPT
                         !.expires = <<timestamp_add_at(t, expiration_hours)>>] >>]
        w6 == [w5 EXCEPT ![pid].tables[subset_name] =
                  << [w5[pid].tables[subset_name][1] EXCEPT
                         !.description = description] >>]
        failed(j, w) ==
            [jobs |-> j,
             warehouse |-> left_after_failure(w, pid, subset_name),
             value |-> [status |-> "error", error |-> "<str(e)>",
                        help |-> HelpPartition]]
        success(j, w) ==
            [jobs |-> j, warehouse |-> w,
             value |-> [status |-> "success",
                        table_id |-> table_id,
                        subset_name |-> subset_name,
                        source_table |-> source_table,
                        rows_created |-> IF ext.dml_reported THEN ext.rows ELSE 0,
                        cost_estimate |-> cost.value,
                        expires_in_hours |-> expiration_hours,
                        message |-> "Subset created successfully. Will auto-delete in {expiration_hours} hours."]]
    IN IF ext.dataset_error = "other" THEN failed(j1, wh)
       ELSE IF ext.fail_at = "create" \/ ~w1[pid].dataset
                  \/ SyntaxError(create_query)
       THEN failed(j3, w1)
       ELSE IF ext.fail_at = "get_table" THEN failed(j4, w3)
       ELSE IF ext.fail_at = "alter" THEN failed(j5, w3)
       ELSE IF ~Truthy(description) THEN success(j5, w5)
       ELSE IF ext.fail_at = "update_table" THEN failed(j6, w5)
       ELSE success(j6, w6)

\* the elements of a finite set in some order
RECURSIVE SeqOf(_)
SeqOf(S) ==
    IF S = {} THEN <<>>
    ELSE LET x == CHOOSE y \in S : TRUE IN <<x>> \o SeqOf(S \ {x})

\* round(x, 1) of a float rounds the double nearest to x: where x is k + 1/2
\* tenths of an hour (180 s + k * 360 s), the k below 100 hours for which the
\* double lies on or above x and rounds away from zero to k + 1 tenths
TenthTiesUp ==
    { 0, 4, 5, 6, 7, 10, 13, 15, 17, 18, 23, 24, 27, 28, 29, 33, 34, 37,
      38, 39, 41, 44, 46, 47, 49, 51, 54, 56, 57, 59, 61, 64, 66, 67,
      69, 71, 74, 76, 77, 79, 80, 81, 85, 86, 87, 90, 91, 95, 96, 97,
      100, 101, 105, 106, 107, 110, 111, 115, 116, 117, 120, 121, 125,
      126, 127, 130, 131, 135, 136, 137, 140, 141, 145, 146, 147, 150,
      151, 155, 156, 157, 160, 163, 165, 167, 168, 170, 173, 175, 177,
      178, 180, 183, 185, 187, 188, 190, 193, 195, 197, 198, 200, 203,
      205, 207, 208, 210, 213, 215, 217, 218, 220, 223, 225, 227, 228,
      230, 233, 235, 237, 238, 240, 243, 245, 247, 248, 250, 253, 255,
      257, 258, 260, 263, 265, 267, 268, 270, 273, 275, 277, 278, 280,
      283, 285, 287, 288, 290, 293, 295, 297, 298, 300, 303, 305, 307,
      308, 310, 313, 315, 317, 318, 323, 324, 327, 328, 329, 333, 334,
      337, 338, 339, 343, 344, 347, 348, 349, 353, 354, 357, 358, 359,
      363, 364, 367, 368, 369, 373, 374, 377, 378, 379, 383, 384, 387,
      388, 389, 393, 394, 397, 398, 399, 403, 404, 407, 408, 409, 413,
      414, 417, 418, 419, 423, 424, 427, 428, 429, 433, 434, 437, 438,
      439, 443, 444, 447, 448, 449, 453, 454, 457, 458, 459, 463, 464,
      467, 468, 469, 473, 474, 477, 478, 479, 483, 484, 487, 488, 489,
      493, 494, 497, 498, 499, 503, 504, 507, 508, 509, 513, 514, 517,
      518, 519, 523, 524, 527, 528, 529, 533, 534, 537, 538, 539, 543,
      544, 547, 548, 549, 553, 554, 557, 558, 559, 563, 564, 567, 568,
      569, 573, 574, 577, 578, 579, 583, 584, 587, 588, 589, 593, 594,
      597, 598, 599, 603, 604, 607, 608, 609, 613, 614, 617, 618, 619,
      623, 624, 627, 628, 629, 633, 634, 637, 638, 639, 641, 644, 646,
      647, 649, 651, 654, 656, 657, 659, 661, 664, 666, 667, 669, 671,
      674, 676, 677, 679, 681, 684, 686, 687, 689, 691, 694, 696, 697,
      699, 701, 704, 706, 707, 709, 711, 714, 716, 717, 719, 721, 724,
      726, 727, 729, 731, 734, 736, 737, 739, 741, 744, 746, 747, 749,
      751, 754, 756, 757, 759, 761, 764, 766, 767, 769, 771, 774, 776,
      777, 779, 781, 784, 786, 787, 789, 791, 794, 796, 797, 799, 801,
      804, 806, 807, 809, 811, 814, 816, 817, 819, 821, 824, 826, 827,
      829, 831, 834, 836, 837, 839, 841, 844, 846, 847, 849, 851, 854,
      856, 857, 859, 861, 864, 866, 867, 869, 871, 874, 876, 877, 879,
      881, 884, 886, 887, 889, 891, 894, 896, 897, 899, 901, 904, 906,
      907, 909, 911, 914, 916, 917, 919, 921, 924, 926, 927, 929, 931,
      934, 936, 937, 939, 941, 944, 946, 947, 949, 951, 954, 956, 957,
      959, 961, 964, 966, 967, 969, 971, 974, 976, 977, 979, 981, 984,
      986, 987, 989, 991, 994, 996, 997, 999 }

\* round(time_diff.total_seconds() / 3600, 1), in tenths of an hour, for a
\* time_diff of d half-seconds under 100 hours
expires_in_tenths(d) ==
    LET a == IF d < 0 THEN 0 - d ELSE d
        k == a \div (HOUR \div 10)
        r == a % (HOUR \div 10)
        n == IF 2 * r < HOUR \div 10 THEN k
             ELSE IF 2 * r > HOUR \div 10 THEN k + 1
             ELSE IF k \in TenthTiesUp THEN k + 1 ELSE k
    IN IF d < 0 THEN 0 - n ELSE n

\* an entry whose is_expired compares the expiration itself with the clock
subset_entry_by_clock(client, subset_name, table, t) ==
    [subset_name |-> subset_name,
     table_id |-> table_id_of(client, subset_name),
     expires |-> table.expires,
     expires_in_hours |-> IF table.expires # <<>>
                          THEN <<expires_in_tenths(table.expires[1] - t)>>
                          ELSE <<>>,
     is_expired |-> table.expires # <<>> /\ table.expires[1] <= t,
     num_rows |-> table.num_rows,
     description |-> table.description]

\* one entry of list_materialized_subsets (created and size_mb left out);
\* expires_in_hours counts tenths of an hour
subset_entry(client, subset_name, table, t) ==
    [subset_name |-> subset_name,
     table_id |-> table_id_of(client, subset_name),
     expires |-> table.expires,
     expires_in_hours |-> IF table.expires # <<>>
                          THEN <<expires_in_tenths(table.expires[1] - t)>>
                          ELSE <<>>,
     is_expired |-> table.expires # <<>>
                    /\ expires_in_tenths(table.expires[1] - t) <= 0,
     num_rows |-> table.num_rows,
     description |-> table.description]

\* a dataset lookup whose failure is reported as the other failures are
dataset_lookup_reported(j) ==
    [jobs |-> j,
     value |-> <<[error |-> "<str(e)>", message |-> "Failed to list subsets"]>>]

\* except Exception: return [] around get_dataset
dataset_lookup_failed(j) == [jobs |-> j, value |-> <<>>]

\* GDELTBigQueryClient.list_materialized_subsets: [] when the dataset lookup
\* fails, one error entry when a later call fails
client_list_materialized_subsets(client, wh, t, ext) ==
    LET pid == client.project_id
        dataset_id == pid \o GDELT_SUBSETS
        names == SeqOf({ s \in DOMAIN wh[pid].tables : wh[pid].tables[s] # <<>> })
        j1 == <<Job("get_dataset", dataset_id, client)>>
        j2 == j1 \o <<Job("list_tables", dataset_id, client)>>
        reads(n) == [i \in 1..n |->
                        Job("get_table", table_id_of(client, names[i]), client)]
        failed == <<[error |-> "<str(e)>", message |-> "Failed to list subsets"]>>
    IN IF ext.fail_at = "get_dataset" \/ ~wh[pid].dataset
       THEN dataset_lookup_failed(j1)
       ELSE IF ext.fail_at = "list_tables" THEN [jobs |-> j2, value |-> failed]
       ELSE IF ext.fail_at = "get_table" /\ names # <<>>
       THEN [jobs |-> j2 \o reads(1), value |-> failed]
       ELSE [jobs |-> j2 \o reads(Len(names)),
             value |-> [i \in 1..Len(names) |->
                           subset_entry(client, names[i],
                                        wh[pid].tables[names[i]][1], t)]]

\* a delete that reports success and leaves the table in the warehouse
client_delete_reports_only(client, wh, subset_name, ext) ==
    [jobs |-> <<Job("delete_table", table_id_of(client, subset_name), client)>>,
     warehouse |-> wh,
     value |-> IF ~ext.job_ok \/ ~TableExists(wh, client, subset_name)
               THEN [status |-> "error", error |-> "<str(e)>",
                     message |-> "Failed to delete subset '{subset_name}'"]
               ELSE [status |-> "success",
                     message |-> "Subset '{subset_name}' deleted successfully"]]

\* GDELTBigQueryClient.delete_materialized_subset
client_delete_materialized_subset(client, wh, subset_name, ext) ==
    LET pid == client.project_id
        table_id == table_id_of(client, subset_name)
        j1 == <<Job("delete_table", table_id, client)>>
    IN IF ~ext.job_ok \/ ~TableExists(wh, client, subset_name)
       THEN [jobs |-> j1, warehouse |-> wh,
             value |-> [status |-> "error", error |-> "<str(e)>",
                        message |-> "Failed to delete subset '{subset_name}'"]]
       ELSE [jobs |-> j1,
             warehouse |-> [wh EXCEPT ![pid].tables[subset_name] = <<>>],
             value |-> [status |-> "success",
                        message |-> "Subset '{subset_name}' deleted successfully"]]

TwoDigits(n) == <<DigitChars[(n \div 10) + 1], DigitChars[(n % 10) + 1]>>

\* new_expiration.strftime('%Y-%m-%d %H:%M:%S UTC'), the date as a day
\* count: whole seconds, the fraction of a second is dropped
strftime(t) ==
    IntToStr(t \div (24 * HOUR)) \o <<" ">>
        \o TwoDigits((t % (24 * HOUR)) \div HOUR) \o <<":">>
        \o TwoDigits((t % HOUR) \div (HOUR \div 60)) \o <<":">>
        \o TwoDigits((t % (HOUR \div 60)) \div (HOUR \div 3600))
        \o <<" ","U","T","C">>

\* the instant the warehouse reads from TIMESTAMP '<days> HH:MM:SS UTC'
timestamp_of(text) ==
    LET fields == Split(text, " ")
        clock == Split(fields[2], ":")
    IN StrToInt(fields[1]) * 24 * HOUR
         + StrToInt(clock[1]) * HOUR
         + StrToInt(clock[2]) * (HOUR \div 60)
         + StrToInt(clock[3]) * (HOUR \div 3600)

\* new_expiration of extend_subset_expiration, from the table that get_table
\* returned
extended_expiration(table, t, additional_hours) ==
    IF table.expires # <<>>
    THEN table.expires[1] + additional_hours * HOUR
    ELSE t + additional_hours * HOUR

\* alter_query of extend_subset_expiration
extend_alter_query(table_id, new_expiration) ==
    alter_query_of(table_id,
        <<"T","I","M","E","S","T","A","M","P"," ","'">> \o strftime(new_expiration) \o <<"'">>)

\* GDELTBigQueryClient.extend_subset_expiration
client_extend_subset_expiration(client, wh, t, subset_name, additional_hours, ext) ==
    LET pid == client.project_id
        table_id == table_id_of(client, subset_name)
        table == TableOf(wh, client, subset_name)
        new_expiration == extended_expiration(table, t, additional_hours)
        alter_query == extend_alter_query(table_id, new_expiration)
        written == timestamp_of(strftime(new_expiration))
        j1 == <<Job("get_table", table_id, client)>>
        j2 == j1 \o <<Job("query", alter_query, client)>>
        failed(j) ==
            [jobs |-> j, warehouse |-> wh,
             value |-> [status |-> "error", error |-> "<str(e)>",
                        message |-> "Failed to extend expiration for '{subset_name}'"]]
    IN IF ext.fail_at = "get_table" \/ ~TableExists(wh, client, subset_name)
       THEN failed(j1)
       ELSE IF ext.fail_at = "alter" THEN failed(j2)
       ELSE [jobs |-> j2,
             warehouse |-> [wh EXCEPT ![pid].tables[subset_name] =
                               << [table EXCEPT !.expires = <<written>>] >>],
             value |-> [status |-> "success",
                        subset_name |-> subset_name,
                        new_expiration |-> new_expiration,
                        message |-> "Expiration extended by {additional_hours} hours"]]

\* the statement GDELTBigQueryClient.query_materialized_subset builds
subset_query_sql(table_id, where_clause, select_fields, limit) ==
    SELECT \o select_fields \o FROM \o table_id \o <<BACKQUOTE>>
        \o (IF Truthy(where_clause) THEN WHERE \o where_clause ELSE <<>>)
        \o LIMIT \o IntToStr(limit)

\* GDELTBigQueryClient.query_materialized_subset: RuntimeError when it fails
client_query_materialized_subset(client, wh, subset_name, where_clause, select_fields, limit, ext) ==
    LET sql == subset_query_sql(table_id_of(client, subset_name),
                                where_clause, select_fields, limit)
    IN [jobs   |-> <<Job("query", sql, client)>>,
        raised |-> ~ext.job_ok \/ ~TableExists(wh, client, subset_name),
        rows   |-> IF TableExists(wh, client, subset_name)
                   THEN Rows(Min(Min(ext.rows,
                                     TableOf(wh, client, subset_name).num_rows),
                                 Max(limit, 0)))
                   ELSE <<>>]

(***************************************************************************)
(* tools/cost_optimization.py and server.py: the subset tools              *)
(***************************************************************************)
InvalidSourceTable ==
    [error |-> "Invalid source_table. Must be one of: events, eventmentions, gkg, cloudvision"]

HelpSubsetName ==
    "Ensure WHERE clause includes date filters and subset_name uses only alphanumeric characters and underscores"

HelpSubsetExists == "Verify the subset exists using list_materialized_subsets"

\* a handler that ends before it reaches the warehouse
Unchanged(wh, effects) ==
    [session |-> effects.session, jobs |-> effects.jobs,
     value |-> effects.value, warehouse |-> wh]

create_materialized_subset_impl(credentials, wh, t, source_table, subset_name, where_clause, select_fields, description, expiration_hours, env, ext) ==
    LET client == GDELTBigQueryClient(credentials[1], credentials[2],
                                      credentials[3], env)
        r == client_create_materialized_subset(
                 client, wh, t, table_map[source_table], subset_name,
                 where_clause, select_fields, description, expiration_hours,
                 ext)
    IN IF ~ext.client_ok
       THEN Unchanged(wh, NoEffects([error |-> "Subset creation failed",
                                     message |-> "<str(e)>",
                                     help |-> HelpSubsetName]))
       ELSE IF source_table \notin DOMAIN table_map
       THEN [session |-> <<client>>, jobs |-> <<>>,
             value |-> InvalidSourceTable, warehouse |-> wh]
       ELSE [session |-> <<client>>, jobs |-> r.jobs, value |-> r.value,
             warehouse |-> r.warehouse]

\* where_clause is a parameter without a default: a call that leaves it out
\* never enters the function, and is no input here
create_materialized_subset(authorization, wh, t, source_table, subset_name, where_clause, select_fields, description, expiration_hours, env, ext) ==
    LET credentials == credentials_of(authorization, env)
    IN IF credentials = None THEN Unchanged(wh, NoEffects(AuthRequired))
       ELSE create_materialized_subset_impl(
                credentials, wh, t, source_table, subset_name, where_clause,
                select_fields, description, expiration_hours, env, ext)

list_materialized_subsets_impl(credentials, wh, t, env, ext) ==
    LET client == GDELTBigQueryClient(credentials[1], credentials[2],
                                      credentials[3], env)
        r == client_list_materialized_subsets(client, wh, t, ext)
    IN IF ~ext.client_ok
       THEN NoEffects(<<[error |-> "Failed to list subsets",
                         message |-> "<str(e)>"]>>)
       ELSE [session |-> <<client>>, jobs |-> r.jobs, value |-> r.value]

list_materialized_subsets(authorization, wh, t, env, ext) ==
    LET credentials == credentials_of(authorization, env)
    IN IF credentials = None THEN NoEffects(<<AuthRequired>>)
       ELSE list_materialized_subsets_impl(credentials, wh, t, env, ext)

query_subset_with(client, wh, subset_name, where_clause, select_fields, limit, ext) ==
    results_or_error(client,
                     client_query_materialized_subset(
                         client, wh, subset_name, where_clause, select_fields,
                         limit, ext),
                     HelpSubsetExists)

query_materialized_subset_impl(credentials, wh, subset_name, where_clause, select_fields, limit, env, ext) ==
    IF ~ext.client_ok THEN NoEffects(<<QueryFailed(HelpSubsetExists)>>)
    ELSE query_subset_with(GDELTBigQueryClient(credentials[1], credentials[2],
                                               credentials[3], env),
                           wh, subset_name, where_clause, select_fields,
                           capped(limit), ext)

query_materialized_subset(authorization, wh, subset_name, where_clause, select_fields, limit, env, ext) ==
    LET credentials == credentials_of(authorization, env)
    IN IF credentials = None THEN NoEffects(<<AuthRequired>>)
       ELSE query_materialized_subset_impl(credentials, wh, subset_name,
                                           where_clause, select_fields, limit,
                                           env, ext)

extend_subset_expiration_impl(credentials, wh, t, subset_name, additional_hours, env, ext) ==
    LET client == GDELTBigQueryClient(credentials[1], credentials[2],
                                      credentials[3], env)
        r == client_extend_subset_expiration(client, wh, t, subset_name,
                                             additional_hours, ext)
    IN IF ~ext.client_ok
       THEN Unchanged(wh, NoEffects([error |-> "Failed to extend expiration",
                                     message |-> "<str(e)>",
                                     help |-> HelpSubsetExists]))
       ELSE [session |-> <<client>>, jobs |-> r.jobs, value |-> r.value,
             warehouse |-> r.warehouse]

extend_subset_expiration(authorization, wh, t, subset_name, additional_hours, env, ext) ==
    LET credentials == credentials_of(authorization, env)
    IN IF credentials = None THEN Unchanged(wh, NoEffects(AuthRequired))
       ELSE extend_subset_expiration_impl(credentials, wh, t, subset_name,
                                          additional_hours, env, ext)

delete_materialized_subset_impl(credentials, wh, subset_name, env, ext) ==
    LET client == GDELTBigQueryClient(credentials[1], credentials[2],
                                      credentials[3], env)
        r == client_delete_materialized_subset(client, wh, subset_name, ext)
    IN IF ~ext.client_ok
       THEN Unchanged(wh, NoEffects([error |-> "Failed to delete subset",
                                     message |-> "<str(e)>",
                                     help |-> HelpSubsetExists]))
       ELSE [session |-> <<client>>, jobs |-> r.jobs, value |-> r.value,
             warehouse |-> r.warehouse]

delete_materialized_subset(authorization, wh, subset_name, env, ext) ==
    LET credentials == credentials_of(authorization, env)
    IN IF credentials = None THEN Unchanged(wh, NoEffects(AuthRequired))
       ELSE delete_materialized_subset_impl(credentials, wh, subset_name,
                                            env, ext)

(***************************************************************************)
(* The subset tools as actions, and the warehouses a call can meet.        *)
(***************************************************************************)
\* the clock when the call arrives: two days and half a second after the
\* clock's origin
Noon == 345601

LiveTable ==
    [expires |-> <<Noon + 24 * HOUR>>, description |-> <<"d">>, num_rows |-> 1]

\* past its expiration and not yet removed by the warehouse
ExpiredTable ==
    [expires |-> <<Noon>>, description |-> <<>>, num_rows |-> 1]

\* created, with the expiration never set
UnexpiringTable ==
    [expires |-> <<>>, description |-> <<>>, num_rows |-> 1]

WithTable(wh, project, subset_name, table) ==
    [wh EXCEPT ![project] =
        [dataset |-> TRUE,
         tables |-> [wh[project].tables EXCEPT ![subset_name] = <<table>>]]]

\* no dataset; a live subset in p and an empty dataset in e; a subset whose
\* expiration was never set in p and an expired one in e
Warehouses ==
    { EmptyWarehouse,
      [WithTable(EmptyWarehouse, <<"p">>, <<"s","1">>, LiveTable)
          EXCEPT ![<<"e">>].dataset = TRUE],
      WithTable(WithTable(EmptyWarehouse, <<"p">>, <<"s","1">>, UnexpiringTable),
                <<"e">>, <<"s","1">>, ExpiredTable) }

SourceTables == { "events", "mentions" }

CreateWhereClauses == { <<>>, <<"S","Q","L","D","A","T","E"," ",">","="," ",
                                "2","0","2","4",
                                "0","1","3",
                                "1">> }

Descriptions == { None, <<"n","e","w">> }

\* expiration_hours and additional_hours: <<>> when the caller leaves it out
Hours == { <<>>, <<0>>, <<24>> }

\* job_ok and bytes are the dry run's outcome, fail_at the first of the later
\* calls to fail
CreateExternals ==
    [client_ok : {TRUE}, dataset_error : {"none", "already exists", "other"},
     fail_at : {"none", "create", "get_table", "alter", "update_table"},
     job_ok : BOOLEAN, bytes : {2^30}, rows : {0, MaxRows},
     dml_reported : {TRUE}]
    \cup [client_ok : BOOLEAN, dataset_error : {"none"}, fail_at : {"none"},
          job_ok : {TRUE}, bytes : {2^30, 2000000000}, rows : {MaxRows},
          dml_reported : BOOLEAN]

ListExternals ==
    { [client_ok |-> FALSE, fail_at |-> "none"] }
    \cup [client_ok : {TRUE},
          fail_at : {"none", "get_dataset", "list_tables", "get_table"}]

ExtendExternals ==
    { [client_ok |-> FALSE, fail_at |-> "none"] }
    \cup [client_ok : {TRUE}, fail_at : {"none", "get_table", "alter"}]

DeleteExternals ==
    { [client_ok |-> FALSE, job_ok |-> TRUE] }
    \cup [client_ok : {TRUE}, job_ok : BOOLEAN]

\* the handler's effects, the warehouse included
ReturnWith(effects) ==
    /\ Return(effects)
    /\ warehouse' = effects.warehouse

Init ==
    /\ environ \in Environs
    /\ request = [call |-> "idle"]
    /\ session = <<>>
    /\ jobs = <<>>
    /\ result = Pending
    /\ warehouse \in Warehouses
    /\ now = Noon

CreateMaterializedSubset ==
    /\ Idle
    /\ \E authorization \in Authorizations, source_table \in SourceTables,
          subset_name \in SubsetNames, where_clause \in CreateWhereClauses,
          description \in Descriptions, expiration_hours \in Hours,
          ext \in CreateExternals :
          /\ request' = [call |-> "create_materialized_subset",
                         authorization |-> authorization,
                         source_table |-> source_table,
                         subset_name |-> subset_name,
                         where_clause |-> where_clause,
                         description |-> description,
                         expiration_hours |-> expiration_hours]
          /\ \E effects \in
                 { create_materialized_subset(
                   authorization, warehouse, now, source_table, subset_name,
                   where_clause, <<"*">>, description,
                   IF expiration_hours = <<>> THEN 48 ELSE expiration_hours[1],
                   environ, ext) } :
                 ReturnWith(effects)
    /\ UNCHANGED <<environ, now>>

ListMaterializedSubsets ==
    /\ Idle
    /\ \E authorization \in Authorizations, ext \in ListExternals :
          /\ request' = [call |-> "list_materialized_subsets",
                         authorization |-> authorization]
          /\ \E effects \in
                 { list_materialized_subsets(authorization, warehouse, now,
                   environ, ext) } :
                 Return(effects)
    /\ UNCHANGED <<environ, warehouse, now>>

QueryMaterializedSubset ==
    /\ Idle
    /\ \E authorization \in Authorizations, subset_name \in SubsetNames,
          where_clause \in WhereClauses, select_fields \in SelectFields,
          limit \in Limits, ext \in Externals :
          /\ request' = [call |-> "query_materialized_subset",
                         authorization |-> authorization,
                         subset_name |-> subset_name,
                         where_clause |-> where_clause,
                         select_fields |-> select_fields, limit |-> limit]
          /\ \E effects \in
                 { query_materialized_subset(
                   authorization, warehouse, subset_name, where_clause,
                   select_fields, IF limit = <<>> THEN 1000 ELSE limit[1],
                   environ, ext) } :
                 Return(effects)
    /\ UNCHANGED <<environ, warehouse, now>>

ExtendSubsetExpiration ==
    /\ Idle
    /\ \E authorization \in Authorizations, subset_name \in SubsetNames,
          additional_hours \in Hours, ext \in ExtendExternals :
          /\ request' = [call |-> "extend_subset_expiration",
                         authorization |-> authorization,
                         subset_name |-> subset_name,
                         additional_hours |-> additional_hours]
          /\ \E effects \in
                 { extend_subset_expiration(
                   authorization, warehouse, now, subset_name,
                   IF additional_hours = <<>> THEN 48 ELSE additional_hours[1],
                   environ, ext) } :
                 ReturnWith(effects)
    /\ UNCHANGED <<environ, now>>

DeleteMaterializedSubset ==
    /\ Idle
    /\ \E authorization \in Authorizations, subset_name \in SubsetNames,
          ext \in DeleteExternals :
          /\ request' = [call |-> "delete_materialized_subset",
                         authorization |-> authorization,
                         subset_name |-> subset_name]
          /\ \E effects \in
                 { delete_materialized_subset(
                   authorization, warehouse, subset_name, environ, ext) } :
                 ReturnWith(effects)
    /\ UNCHANGED <<environ, now>>

Next ==
    \/ QueryEvents
    \/ QueryEventMentions
    \/ QueryGkg
    \/ QueryCloudVision
    \/ EstimateQueryCost
    \/ CreateMaterializedSubset
    \/ ListMaterializedSubsets
    \/ QueryMaterializedSubset
    \/ ExtendSubsetExpiration
    \/ DeleteMaterializedSubset

Spec == Init /\ [][Next]_vars

(***************************************************************************)
(* Claims C1, C2, C6, C7, C8: the tool calls of Spec.                      *)
(***************************************************************************)
TableQueries ==
    { "query_events", "query_eventmentions", "query_gkg", "query_cloudvision" }

Queries == TableQueries \cup { "query_materialized_subset" }

\* the tools whose result is a list
ListTools == Queries \cup { "list_materialized_subsets" }

DictTools ==
    { "estimate_query_cost", "create_materialized_subset",
      "extend_subset_expiration", "delete_materialized_subset" }

WarehouseTools == ListTools \cup DictTools

Served == request.call \in WarehouseTools /\ result.returned

TokenIdentity == get_credentials_from_token(request.authorization)

EnvIdentity == get_credentials_from_env(environ)

\* the error field of the result, behind the list for a list tool
ErrorOf(value, call) ==
    IF call \in ListTools
    THEN IF Len(value) = 1 /\ "error" \in DOMAIN value[1]
         THEN value[1].error ELSE "<no error>"
    ELSE IF "error" \in DOMAIN value THEN value.error ELSE "<no error>"

\* C1: for each of the ten warehouse-backed tools, when neither the bearer
\* token nor the environment resolves to an identity, the call returns a
\* result whose error field is "Authentication required" (inside a
\* one-element list for the list-returning tools), builds no client and
\* issues no warehouse call.
C1_Theorem ==
    (Served /\ TokenIdentity = None /\ EnvIdentity = None) =>
        /\ ErrorOf(result.value, request.call) = "Authentication required"
        /\ session = <<>>
        /\ jobs = <<>>

\* a list tool and a token of two fields, with an environment whose key is
\* not PEM: the one-element error list and no call
C1_Witness ==
    /\ Served
    /\ request.call = "list_materialized_subsets"
    /\ request.authorization = BEARER \o <<"x","|","y">>
    /\ environ.GCP_PRIVATE_KEY = <<"k">>
    /\ Len(result.value) = 1
    /\ result.value[1].error = "Authentication required"
    /\ jobs = <<>>

\* the identity a client and its calls run under
IdentityOf(triple) ==
    [project_id |-> triple[1], client_email |-> triple[3]]

RunsUnder(triple) ==
    /\ \A i \in 1..Len(session) :
          /\ session[i].project_id = triple[1]
          /\ session[i].client_email = triple[3]
          /\ session[i].private_key = Replace(triple[2], <<"\\","n">>, <<"\n">>)
    /\ \A i \in 1..Len(jobs) :
          [project_id |-> jobs[i].project_id,
           client_email |-> jobs[i].client_email] = IdentityOf(triple)

\* C2: the bearer token is tried first and the environment only when the
\* token yields nothing: whenever the token resolves to an identity, the
\* client and every warehouse call of the request run under that identity,
\* whatever the environment holds; the environment's identity is used
\* when the token yields nothing.
C2_Theorem ==
    Served =>
        /\ (TokenIdentity # None) =>
              /\ RunsUnder(TokenIdentity)
              /\ ErrorOf(result.value, request.call) # "Authentication required"
        /\ (TokenIdentity = None /\ EnvIdentity # None) =>
              /\ RunsUnder(EnvIdentity)
              /\ ErrorOf(result.value, request.call) # "Authentication required"

\* a valid token beside a valid environment of another project: the query
\* ran under the token's project
C2_Witness ==
    /\ Served
    /\ request.call = "query_gkg"
    /\ TokenIdentity = TokenTriple
    /\ EnvIdentity = EnvTriple
    /\ Len(jobs) = 1
    /\ jobs[1].project_id = <<"p">>
    /\ session[1].client_email = <<"a","@","p">>

\* the table a table query reads
TableOfCall(call) ==
    IF call = "query_events" THEN EVENTS_TABLE
    ELSE IF call = "query_eventmentions" THEN EVENTMENTIONS_TABLE
    ELSE IF call = "query_gkg" THEN GKG_TABLE
    ELSE CLOUDVISION_TABLE

\* the limit the caller asked for, or the tool's default
RequestedLimit ==
    IF request.limit # <<>> THEN request.limit[1]
    ELSE IF request.call = "query_materialized_subset" THEN 1000 ELSE 100

RowLimit == IF RequestedLimit > 10000 THEN 10000 ELSE RequestedLimit

Composed == Served /\ request.call \in TableQueries /\ jobs # <<>>

\* C6: the statement of an ad-hoc table query has no WHERE clause when the
\* filter is absent or empty, WHERE <partition predicate> AND (<filter>)
\* when a predicate is inferred, WHERE <filter> when none is inferred, and
\* in all three cases ends with LIMIT <row limit>.
C6_Theorem ==
    Composed =>
        LET sql == jobs[1].text
            filter == request.where_clause
            table == TableOfCall(request.call)
            head == SELECT \o request.select_fields \o FROM \o table
                        \o <<BACKQUOTE>>
            tail == LIMIT \o IntToStr(RowLimit)
            predicate == _extract_partition_filter(filter, table)
        IN /\ EndsWith(sql, tail)
           /\ IF filter = None \/ filter = <<>>
              THEN sql = head \o tail /\ ~Contains(sql, WHERE)
              ELSE IF predicate # None
              THEN sql = head \o WHERE \o predicate \o <<" ","A","N","D"," ",
                                                         "(">> \o filter
                             \o <<")">> \o tail
              ELSE sql = head \o WHERE \o filter \o tail

\* an events query whose filter gives a predicate
C6_Witness ==
    /\ Composed
    /\ request.call = "query_events"
    /\ request.limit = <<5>>
    /\ Contains(jobs[1].text,
                <<" ","W","H","E","R","E"," ","_","P","A","R","T","I","T","I",
                  "O","N","T","I","M","E"," ",">","="," ","'",
                  "2","0","2","4","-","0","1","-","3","1","'",
                  " ","A","N","D"," ","(","S","Q","L","D","A",
                  "T","E"," ",">","="," ","2","0","2","4","0",
                  "1","3","1",")"," ","L","I","M","I","T"," ",
                  "5">>)

\* the position of the last " LIMIT " in a statement, 0 when there is none
LastLimit(sql) ==
    LET at == { i \in 1..Len(sql) :
                   i + Len(LIMIT) - 1 <= Len(sql)
                   /\ SubSeq(sql, i, i + Len(LIMIT) - 1) = LIMIT }
    IN IF at = {} THEN 0 ELSE CHOOSE i \in at : \A j \in at : i >= j

\* the number after the last LIMIT of a statement
LimitOf(sql) == StrToInt(SubSeq(sql, LastLimit(sql) + Len(LIMIT), Len(sql)))

Queried == Served /\ request.call \in Queries /\ jobs # <<>>

\* C7: for the four table queries and the subset query, whatever limit the
\* caller asks for, the LIMIT of the composed statement is at most 10000 (a
\* request of 50000 gives LIMIT 10000); with no limit given it is 100 for a
\* table query and 1000 for a subset query.
C7_Theorem ==
    Queried =>
        /\ LastLimit(jobs[1].text) # 0
        /\ LimitOf(jobs[1].text) <= 10000
        /\ (request.limit = <<50000>>) => LimitOf(jobs[1].text) = 10000
        /\ (request.limit = <<>> /\ request.call \in TableQueries) =>
              LimitOf(jobs[1].text) = 100
        /\ (request.limit = <<>> /\ request.call = "query_materialized_subset") =>
              LimitOf(jobs[1].text) = 1000

\* a subset query asked for 50000 rows
C7_Witness ==
    /\ Queried
    /\ request.call = "query_materialized_subset"
    /\ request.limit = <<50000>>
    /\ EndsWith(jobs[1].text, <<" ","L","I","M","I","T"," ","1","0","0","0",
                                "0">>)

ORDER_BY == <<"O","R","D","E","R"," ","B","Y">>

\* C8 as claimed: an events query called with an orderBy value composes a
\* statement that contains ORDER BY <orderBy>; the other three table
\* queries and the subset query never contain ORDER BY.
C8_AsClaimed ==
    Queried =>
        IF request.call = "query_events" /\ request.order_by # None
        THEN Contains(jobs[1].text, ORDER_BY \o <<" ">> \o request.order_by)
        ELSE request.call # "query_events" =>
                 ~Contains(jobs[1].text, ORDER_BY)

(***************************************************************************)
(* Cost estimation on its own: the dry run reports a byte count drawn from *)
(* a grid over 0 .. 2 * 10^9, the multiples of 2^27 (where the hundredths  *)
(* and the ten-thousandths are ties) and the counts around 0.1 GiB, 1 GiB  *)
(* and the neighbouring rounding edges; EstimateCost runs the              *)
(* estimate_query_cost tool on it.                                         *)
(***************************************************************************)
ByteStep == 5000000

MaxByteSteps == 400

\* 0.1 GiB is 107374182.4 bytes, 0.1000001 GiB is 107374289.8 bytes;
\* 0.105 GiB is 112742891.5 bytes, 1.005 GiB is 1079110533.1 bytes
ByteEdges ==
    { 107374182, 107374183, 107374289, 107374290, 112742891, 112742892,
      2^30 - 1, 2^30, 2^30 + 1, 1073741931, 1079110533, 1079110534 }

ByteCounts ==
    { i * ByteStep : i \in 0..MaxByteSteps }
        \cup { k * 2^27 : k \in 0..15 }
        \cup ByteEdges

InitCost ==
    /\ environ = EnvUnset
    /\ request \in [call : {"dry_run"}, bytes : ByteCounts]
    /\ session = <<>>
    /\ jobs = <<>>
    /\ result = Pending
    /\ warehouse = EmptyWarehouse
    /\ now = Noon

EstimateCost ==
    /\ request.call = "dry_run"
    /\ \E table \in { "events", "gkg" }, job_ok \in BOOLEAN :
          /\ request' = [call |-> "estimate_query_cost",
                         authorization |-> BEARER \o Join(TokenTriple, <<"|">>),
                         table |-> table,
                         where_clause |-> None,
                         select_fields |-> <<"*">>,
                         bytes |-> request.bytes]
          /\ \E effects \in
                 { estimate_query_cost(
                       BEARER \o Join(TokenTriple, <<"|">>), table, None,
                       <<"*">>, environ,
                       [client_ok |-> TRUE, job_ok |-> job_ok,
                        bytes |-> request.bytes]) } :
                 Return(effects)
    /\ UNCHANGED <<environ, warehouse, now>>

NextCost == EstimateCost

SpecCost == InitCost /\ [][NextCost]_vars

(***************************************************************************)
(* Claims C9 and C10.                                                      *)
(***************************************************************************)
\* the estimate succeeded: the result carries the three figures
Estimated ==
    /\ request.call = "estimate_query_cost"
    /\ result.returned
    /\ "bytes_processed" \in DOMAIN result.value

\* floor and ceiling of j * 2^p / 25
EdgeFloor(j, p) == j * (2^p \div 25) + (j * (2^p % 25)) \div 25

EdgeCeil(j, p) ==
    EdgeFloor(j, p) + (IF (j * (2^p % 25)) % 25 = 0 THEN 0 ELSE 1)

\* u is a nearest integer to b * 25 / 2^(p+1):
\* (2u - 1) * 2^p <= 25 * b <= (2u + 1) * 2^p
Nearest(u, b, p) ==
    /\ EdgeCeil(2 * u - 1, p) <= b
    /\ b <= EdgeFloor(2 * u + 1, p)

\* C9 as claimed: for every dry-run byte count b the estimate returns
\* bytesProcessed = b, gbProcessed = b / 2^30 rounded to 2 decimals, and
\* estimatedCostUsd = the returned gbProcessed times 0.005 rounded to 4
\* decimals; b = 1073741824 gives 1.0 and 0.005.  With m the returned
\* hundredths and c the returned ten-thousandths: c is a nearest integer to
\* m / 2, and c is determined by m, so every byte count that returns the
\* same m returns the same c.
C9_AsClaimed ==
    Estimated =>
        LET b == request.bytes
            v == result.value
        IN /\ v.bytes_processed = b
           /\ Nearest(v.gb_processed, b, 27)
           /\ 2 * v.estimated_cost_usd \in
                  (v.gb_processed - 1)..(v.gb_processed + 1)
           /\ \A b2 \in ByteCounts :
                  gb_processed(b2) = v.gb_processed =>
                      estimated_cost_usd(b2) = v.estimated_cost_usd
           /\ (b = 2^30) => (v.gb_processed = 100 /\ v.estimated_cost_usd = 50)

\* C9 amended: the estimate returns bytesProcessed = b, gbProcessed =
\* b / 2^30 rounded to the nearest hundredth, and estimatedCostUsd =
\* (b / 2^30) * 0.005, of the unrounded quotient, rounded to the nearest
\* ten-thousandth; b = 1073741824 gives 1.0 and 0.005.
C9_Theorem ==
    Estimated =>
        LET b == request.bytes
            v == result.value
        IN /\ v.bytes_processed = b
           /\ Nearest(v.gb_processed, b, 27)
           /\ Nearest(v.estimated_cost_usd, b, 28)
           /\ (b = 2^30) => (v.gb_processed = 100 /\ v.estimated_cost_usd = 50)

\* 0.01 GiB returned for 10000000 bytes, with a cost of 0.0000: another
\* byte count returns 0.01 GiB with a cost of 0.0001
C9_Witness ==
    /\ Estimated
    /\ request.bytes = 2 * ByteStep
    /\ result.value.gb_processed = 1
    /\ result.value.estimated_cost_usd = 0
    /\ \E b2 \in ByteCounts :
          gb_processed(b2) = 1 /\ estimated_cost_usd(b2) = 1

\* the advisories attached to a result
AdvisoriesOf(value) ==
    { k \in {"warning", "info"} : k \in DOMAIN value }

\* C10 as claimed: a successful estimate carries exactly one advisory, chosen
\* by the scan size in GiB: above 1.0 the high-cost warning, above 0.1 and
\* up to 1.0 the moderate-cost note, otherwise the low-cost note; the
\* thresholds are strict on the scan size (0.1000001 GiB is moderate,
\* exactly 1 GiB is moderate).  0.1 GiB is 107374182.4 bytes.
C10_AsClaimed ==
    Estimated =>
        LET b == request.bytes
            v == result.value
        IN IF b > 2^30
           THEN AdvisoriesOf(v) = {"warning"} /\ v.warning = HIGH_COST
           ELSE IF b > 107374182
           THEN AdvisoriesOf(v) = {"info"} /\ v.info = MODERATE_COST
           ELSE AdvisoriesOf(v) = {"info"} /\ v.info = LOW_COST

(***************************************************************************)
(* The subset tools over a run: one caller of one project calls them one   *)
(* after another on a warehouse that starts without the dataset, while the *)
(* clock advances and the warehouse removes tables that are past their     *)
(* expiration.                                                             *)
(***************************************************************************)
\* expiration_hours and additional_hours as the handler receives them
HoursOf(given) == IF given = <<>> THEN 48 ELSE given[1]

MaxTicks == 2

\* the longest life a run gives a table, in hours
MaxLifeHours == 96

\* an hour and a second and a half
TickStep == HOUR + 3

LifecycleAuthorization == BEARER \o Join(TokenTriple, <<"|">>)

LifecycleWhereClause ==
    <<"S","Q","L","D","A","T","E"," ",">","="," ","2","0","2","4","0","1",
      "3","1">>

LifecycleHours == { <<>>, <<1>> }

LifecycleAdditionalHours == { <<>> }

LifecycleLimits == { <<>>, <<1>> }

\* all calls succeed, or the creation statement or one of the calls after it
\* fails
LifecycleCreateExternals ==
    [client_ok : {TRUE}, dataset_error : {"none"},
     fail_at : {"none", "create", "get_table", "alter", "update_table"},
     job_ok : {TRUE}, bytes : {2^30},
     rows : {MaxRows}, dml_reported : {TRUE}]

LifecycleListExternals ==
    [client_ok : {TRUE}, fail_at : {"none", "get_dataset", "get_table"}]

LifecycleQueryExternals ==
    { [client_ok |-> TRUE, job_ok |-> FALSE, rows |-> 0],
      [client_ok |-> TRUE, job_ok |-> TRUE, rows |-> MaxRows] }

LifecycleExtendExternals ==
    [client_ok : {TRUE}, fail_at : {"none", "alter"}]

LifecycleDeleteExternals == [client_ok : {TRUE}, job_ok : BOOLEAN]

InitLifecycle ==
    /\ environ = EnvUnset
    /\ request = [call |-> "idle"]
    /\ session = <<>>
    /\ jobs = <<>>
    /\ result = Pending
    /\ warehouse = EmptyWarehouse
    /\ now = Noon

\* the status field of a record, when it has one
StatusOf(value) ==
    IF "status" \in DOMAIN value THEN value.status ELSE "<no status>"

\* for each name, the last of the run's creates and deletes of that name to
\* return status success; the requests of a run carry it and no handler
\* reads it
LastOf(req) ==
    IF "last" \in DOMAIN req THEN req.last
    ELSE [name \in SubsetNames |-> "none"]

\* existed records whether a table of that name was in the caller's project
\* when the call arrived; no handler reads it
LifecycleCreate ==
    /\ \E subset_name \in SubsetNames, description \in Descriptions,
          expiration_hours \in LifecycleHours,
          ext \in LifecycleCreateExternals :
          \E effects \in
              { create_materialized_subset(
                LifecycleAuthorization, warehouse, now, "events",
                subset_name, LifecycleWhereClause, <<"*">>, description,
                IF expiration_hours = <<>> THEN 48 ELSE expiration_hours[1],
                environ, ext) } :
                    /\ request' =
                          [call |-> "create_materialized_subset",
                           authorization |-> LifecycleAuthorization,
                           source_table |-> "events",
                           subset_name |-> subset_name,
                           where_clause |-> LifecycleWhereClause,
                           description |-> description,
                           expiration_hours |-> expiration_hours,
                           existed |-> warehouse[TokenTriple[1]]
                                           .tables[subset_name] # <<>>,
                           last |-> IF StatusOf(effects.value) = "success"
                                    THEN [LastOf(request) EXCEPT
                                             ![subset_name] = "created"]
                                    ELSE LastOf(request)]
                    /\ ReturnWith(effects)
    /\ UNCHANGED <<environ, now>>

LifecycleList ==
    /\ \E ext \in LifecycleListExternals :
          /\ request' = [call |-> "list_materialized_subsets",
                         authorization |-> LifecycleAuthorization,
                         last |-> LastOf(request)]
          /\ \E effects \in
                 { list_materialized_subsets(LifecycleAuthorization, warehouse,
                   now, environ, ext) } :
                 Return(effects)
    /\ UNCHANGED <<environ, warehouse, now>>

LifecycleQuery ==
    /\ \E subset_name \in SubsetNames, limit \in LifecycleLimits,
          ext \in LifecycleQueryExternals :
          /\ request' = [call |-> "query_materialized_subset",
                         authorization |-> LifecycleAuthorization,
                         subset_name |-> subset_name,
                         where_clause |-> None,
                         select_fields |-> <<"*">>, limit |-> limit,
                         last |-> LastOf(request)]
          /\ \E effects \in
                 { query_materialized_subset(
                   LifecycleAuthorization, warehouse, subset_name, None,
                   <<"*">>, IF limit = <<>> THEN 1000 ELSE limit[1],
                   environ, ext) } :
                 Return(effects)
    /\ UNCHANGED <<environ, warehouse, now>>

\* a run extends a table's life up to MaxLifeHours after Noon
LifecycleExtend ==
    /\ \E subset_name \in SubsetNames,
          additional_hours \in LifecycleAdditionalHours,
          ext \in LifecycleExtendExternals :
          /\ \A p \in Projects :
                warehouse[p].tables[subset_name] # <<>> =>
                    \A e \in { warehouse[p].tables[subset_name][1].expires } :
                        e # <<>> =>
                            e[1] + HoursOf(additional_hours) * HOUR
                                <= Noon + MaxLifeHours * HOUR
          /\ request' = [call |-> "extend_subset_expiration",
                         authorization |-> LifecycleAuthorization,
                         subset_name |-> subset_name,
                         additional_hours |-> additional_hours,
                         last |-> LastOf(request)]
          /\ \E effects \in
                 { extend_subset_expiration(
                   LifecycleAuthorization, warehouse, now, subset_name,
                   IF additional_hours = <<>> THEN 48 ELSE additional_hours[1],
                   environ, ext) } :
                 ReturnWith(effects)
    /\ UNCHANGED <<environ, now>>

LifecycleDelete ==
    /\ \E subset_name \in SubsetNames, ext \in LifecycleDeleteExternals :
          \E effects \in
              { delete_materialized_subset(
                LifecycleAuthorization, warehouse, subset_name, environ,
                ext) } :
                    /\ request' =
                          [call |-> "delete_materialized_subset",
                           authorization |-> LifecycleAuthorization,
                           subset_name |-> subset_name,
                           last |-> IF StatusOf(effects.value) = "success"
                                    THEN [LastOf(request) EXCEPT
                                             ![subset_name] = "deleted"]
                                    ELSE LastOf(request)]
                    /\ ReturnWith(effects)
    /\ UNCHANGED <<environ, now>>

\* time passes between two calls
Tick ==
    /\ now < Noon + MaxTicks * TickStep
    /\ now' = now + TickStep
    /\ UNCHANGED <<environ, request, session, jobs, result, warehouse>>

\* a table is past the expiration_timestamp that a statement set on it
PastExpiration(table, t) == table.expires # <<>> /\ table.expires[1] <= t

\* the warehouse removes a table that is past its expiration
WarehouseExpire ==
    /\ \E p \in Projects, subset_name \in SubsetNames :
          /\ warehouse[p].tables[subset_name] # <<>>
          /\ PastExpiration(warehouse[p].tables[subset_name][1], now)
          /\ warehouse' = [warehouse EXCEPT ![p].tables[subset_name] = <<>>]
    /\ UNCHANGED <<environ, request, session, jobs, result, now>>

NextLifecycle ==
    \/ LifecycleCreate
    \/ LifecycleList
    \/ LifecycleQuery
    \/ LifecycleExtend
    \/ LifecycleDelete
    \/ Tick
    \/ WarehouseExpire

SpecLifecycle == InitLifecycle /\ [][NextLifecycle]_vars

(***************************************************************************)
(* Claims C11 to C20: the subset tools.                                    *)
(***************************************************************************)
CreateReturned ==
    request.call = "create_materialized_subset" /\ result.returned

CreateSucceeded == CreateReturned /\ StatusOf(result.value) = "success"

\* C11: whenever create returns status success for a name, the table of
\* that name exists at <project>.gdelt_subsets.<name> with its expiration
\* at (time of the creation + expiration_hours), its description the one
\* supplied if one was supplied, and the result reports expires_in_hours
\* equal to expiration_hours (48 when not given).
C11_Theorem ==
    CreateSucceeded =>
        LET client == session[1]
            name == request.subset_name
            hours == HoursOf(request.expiration_hours)
        IN /\ result.value.table_id =
                  client.project_id \o <<".","g","d","e","l","t","_","s","u",
                                         "b","s","e","t","s",".">> \o name
           /\ TableExists(warehouse, client, name)
           /\ TableOf(warehouse, client, name).expires = <<now + hours * HOUR>>
           /\ Truthy(request.description) =>
                  TableOf(warehouse, client, name).description
                      = request.description
           /\ result.value.expires_in_hours = hours
           /\ request.expiration_hours = <<>> =>
                  result.value.expires_in_hours = 48

\* a creation with a description and 24 hours succeeded: the table expires a
\* day after now
C11_Witness ==
    /\ CreateSucceeded
    /\ request.expiration_hours = <<24>>
    /\ request.description = <<"n","e","w">>
    /\ TableOf(warehouse, session[1], request.subset_name)
           = [expires |-> <<now + 24 * HOUR>>, description |-> <<"n","e","w">>,
              num_rows |-> MaxRows]

\* the result is an error: status error, or an error field
IsError(value) ==
    \/ StatusOf(value) = "error"
    \/ /\ "status" \notin DOMAIN value
       /\ "error" \in DOMAIN value

TablesOf(wh) == [p \in Projects |-> wh[p].tables]

\* C12: a create called with an empty filter is rejected with an error result
\* and creates or replaces no table, while a table query called with the
\* filter absent or empty is accepted: once its client is built it runs one
\* SELECT with no WHERE clause, and returns its rows when that succeeds.
C12_Theorem ==
    [][ /\ (/\ request'.call = "create_materialized_subset"
            /\ ~Truthy(request'.where_clause))
           => /\ IsError(result'.value)
              /\ TablesOf(warehouse') = TablesOf(warehouse)
        /\ (/\ request'.call \in TableQueries
            /\ ~Truthy(request'.where_clause)
            /\ session' # <<>>)
           => /\ Len(jobs') = 1
              /\ jobs'[1].api = "query"
              /\ StartsWith(jobs'[1].text, SELECT)
              /\ ~Contains(jobs'[1].text, <<"W","H","E","R","E">>)
              /\ \/ ErrorOf(result'.value, request'.call) = "Query failed"
                 \/ ErrorOf(result'.value, request'.call) = "<no error>"
      ]_vars

\* a create with an empty filter sent its statement and got an error back,
\* in a project that holds a subset
C12_Witness ==
    /\ CreateReturned
    /\ request.where_clause = <<>>
    /\ Len(jobs) = 3
    /\ jobs[3].api = "query"
    /\ StatusOf(result.value) = "error"
    /\ TableExists(warehouse, session[1], request.subset_name)

\* a step of the run in which the warehouse removes a table
ExpireStep ==
    /\ UNCHANGED <<request, session, jobs, result, now>>
    /\ \E p \in Projects, name \in SubsetNames :
          /\ warehouse[p].tables[name] # <<>>
          /\ warehouse'[p].tables[name] = <<>>

\* a step of the run in which a tool is called and returns: the clock stands
\* still, and it is not the warehouse that removes a table
CallStep == now' = now /\ ~ExpireStep

Calls(tool) == CallStep /\ request'.call = tool

\* list ran to its end: it listed the dataset and returned no error entry
ListCompleted ==
    /\ request.call = "list_materialized_subsets"
    /\ result.returned
    /\ Len(jobs) >= 2
    /\ jobs[2].api = "list_tables"
    /\ ErrorOf(result.value, request.call) = "<no error>"

\* the entries of a list result that carry a name
EntriesOf(value, name) ==
    { i \in 1..Len(value) : value[i].subset_name = name }

\* the list result shows the warehouse: one entry for each table of the
\* caller's project, with the table's expiration, description and rows
ListShows(value, wh, client) ==
    \A name \in DOMAIN wh[client.project_id].tables :
        IF TableExists(wh, client, name)
        THEN /\ Cardinality(EntriesOf(value, name)) = 1
             /\ \A i \in EntriesOf(value, name) :
                   /\ value[i].expires = TableOf(wh, client, name).expires
                   /\ value[i].description
                          = TableOf(wh, client, name).description
                   /\ value[i].num_rows = TableOf(wh, client, name).num_rows
        ELSE EntriesOf(value, name) = {}

\* C13: create with a name that already exists in the project makes no
\* existence check and overwrites: its first three calls are create_dataset,
\* the dry run and the CREATE OR REPLACE statement, and after it returns
\* success the table's rows, expiration and description are those of the new
\* call (no description when the new call gives none); a list that runs to
\* its end shows exactly one entry with that name, carrying the table's
\* values.
C13_Theorem ==
    [][ /\ (/\ Calls("create_materialized_subset")
            /\ StatusOf(result'.value) = "success"
            /\ TableExists(warehouse, session'[1], request'.subset_name))
           => /\ jobs'[1].api = "create_dataset"
              /\ jobs'[2].api = "dry_run"
              /\ jobs'[3].api = "query"
              /\ Contains(jobs'[3].text,
                          <<"C","R","E","A","T","E"," ","O","R"," ","R","E",
                            "P","L","A","C","E"," ","T","A","B","L","E">>)
              /\ TableOf(warehouse', session'[1], request'.subset_name)
                   = [expires |->
                          <<now + HoursOf(request'.expiration_hours) * HOUR>>,
                      description |->
                          IF Truthy(request'.description)
                          THEN request'.description ELSE <<>>,
                      num_rows |-> result'.value.rows_created]
        /\ (Calls("list_materialized_subsets") /\ ListCompleted')
           => ListShows(result'.value, warehouse', session'[1])
      ]_vars

\* a create without a description succeeded over a table that existed: the
\* table has the new call's rows and expiration and no description
C13_Witness ==
    /\ CreateSucceeded
    /\ request.existed
    /\ request.description = None
    /\ TableOf(warehouse, session[1], request.subset_name)
           = [expires |-> <<now + HoursOf(request.expiration_hours) * HOUR>>,
              description |-> <<>>, num_rows |-> result.value.rows_created]
    /\ now > Noon


ExtendSucceeds ==
    /\ request'.call = "extend_subset_expiration"
    /\ result'.returned
    /\ StatusOf(result'.value) = "success"

\* C14: a successful extend of a subset without expiration sets the
\* expiration to (now + additional_hours), of a subset with an expiration to
\* (that expiration + additional_hours), and the expiration the warehouse
\* holds afterwards is the new_expiration that the call returns.
C14_AsClaimed ==
    [][ ExtendSucceeds =>
          \A old \in { TableOf(warehouse, session'[1], request'.subset_name) } :
              /\ result'.value.new_expiration
                   = (IF old.expires = <<>> THEN now ELSE old.expires[1])
                       + HoursOf(request'.additional_hours) * HOUR
              /\ TableOf(warehouse', session'[1], request'.subset_name).expires
                   = << result'.value.new_expiration >>
      ]_vars


ListReturned ==
    request.call = "list_materialized_subsets" /\ result.returned

\* C15: whenever list, called with credentials it can build a client from,
\* finds no gdelt_subsets dataset in the caller's project, it returns the
\* empty list (no entry, so no error entry) and makes no call after the
\* dataset lookup.
C15_Theorem ==
    (/\ ListReturned
     /\ session # <<>>
     /\ ~warehouse[session[1].project_id].dataset)
        => /\ result.value = <<>>
           /\ Len(jobs) = 1
           /\ jobs[1].api = "get_dataset"

C15_Witness ==
    /\ ListReturned
    /\ session # <<>>
    /\ ~warehouse[session[1].project_id].dataset
    /\ result.value = <<>>
    /\ jobs[1].text = session[1].project_id \o GDELT_SUBSETS


\* create, extend or delete returned after a warehouse call of its client
\* failed
SubsetChangeFailed ==
    /\ request.call \in { "create_materialized_subset",
                          "extend_subset_expiration",
                          "delete_materialized_subset" }
    /\ result.returned
    /\ jobs # <<>>
    /\ StatusOf(result.value) # "success"

\* C16: whenever a warehouse call fails during create, extend or delete,
\* the result is a record with status error, an error field and a help
\* field.
C16_AsClaimed ==
    SubsetChangeFailed
        => /\ StatusOf(result.value) = "error"
           /\ "error" \in DOMAIN result.value
           /\ "help" \in DOMAIN result.value


\* one error entry of list
ListFailure(value) ==
    Len(value) = 1 /\ DOMAIN value[1] = { "error", "message" }

\* C17: whenever list returns for a project whose gdelt_subsets dataset
\* exists, its result is either the list of all the project's subsets, after
\* every call of list succeeded, or the one-element list [{error, message}]:
\* a failed call, the dataset lookup included, never gives an empty or a
\* partial list.
C17_AsClaimed ==
    (/\ ListReturned
     /\ session # <<>>
     /\ warehouse[session[1].project_id].dataset)
        => \/ ListFailure(result.value)
           \/ /\ ListCompleted
              /\ ListShows(result.value, warehouse, session[1])


\* the run's project holds a table of the name
Holds(wh, name) == wh[TokenTriple[1]].tables[name] # <<>>

\* the call that returns in this step is about the name
CallsOn(tool, name) == Calls(tool) /\ request'.subset_name = name

Succeeds == StatusOf(result'.value) = "success"

\* the limit of a query request, 1000 when the caller leaves it out
LimitAsked(req) == IF req.limit = <<>> THEN 1000 ELSE req.limit[1]

\* the one-element result of a query that failed
QueryError(value) == Len(value) = 1 /\ "error" \in DOMAIN value[1]

\* C18, as claimed: in a sequential run in one project, once a create of
\* name n has returned success, and until a delete of n returns success, a
\* list that lists the dataset contains n and a query of n with limit k
\* that does not fail returns at most k rows; once a delete of n has
\* returned success, and until a later create of n returns success, a list
\* contains no n and a query of n returns an error entry.
C18_AsClaimed ==
    [][ \A name \in SubsetNames :
          /\ (Calls("list_materialized_subsets") /\ ListCompleted')
                => /\ LastOf(request')[name] = "created"
                        => EntriesOf(result'.value, name) # {}
                   /\ LastOf(request')[name] = "deleted"
                        => EntriesOf(result'.value, name) = {}
          /\ CallsOn("query_materialized_subset", name)
                => /\ LastOf(request')[name] = "created"
                        => \/ QueryError(result'.value)
                           \/ Len(result'.value) <= LimitAsked(request')
                   /\ LastOf(request')[name] = "deleted"
                        => QueryError(result'.value)
      ]_vars

\* C18, amended: a create of n that returns success leaves a table n and a
\* delete of n that returns success leaves none; a table n appears only in a
\* create of n that ran its creation statement (whether or not the create
\* then returned success) and disappears only in a delete of n that returns
\* success or when the warehouse removes it past its expiration; while there
\* is a table n, list returns exactly one entry of n, or one error entry, or
\* the empty list after its dataset lookup failed, and a query of n with
\* limit k returns at most k rows or an error entry; while there is none, a
\* list has no entry of n and a query of n returns an error entry.
C18_Theorem ==
    [][ \A name \in SubsetNames :
          /\ (CallsOn("create_materialized_subset", name) /\ Succeeds)
                => Holds(warehouse', name)
          /\ (CallsOn("delete_materialized_subset", name) /\ Succeeds)
                => ~Holds(warehouse', name)
          /\ (~Holds(warehouse, name) /\ Holds(warehouse', name))
                => /\ CallsOn("create_materialized_subset", name)
                   /\ Len(jobs') >= 3
                   /\ jobs'[3].text
                        = create_query_of(table_id_of(session'[1], name),
                                          EVENTS_TABLE, request'.where_clause,
                                          <<"*">>)
          /\ (Holds(warehouse, name) /\ ~Holds(warehouse', name))
                => \/ CallsOn("delete_materialized_subset", name) /\ Succeeds
                   \/ /\ ExpireStep
                      /\ PastExpiration(
                            warehouse[TokenTriple[1]].tables[name][1], now)
          /\ Calls("list_materialized_subsets")
                => \/ ListFailure(result'.value)
                   \/ /\ Holds(warehouse, name)
                      /\ result'.value = <<>>
                      /\ Len(jobs') = 1
                   \/ Cardinality(EntriesOf(result'.value, name))
                        = (IF Holds(warehouse, name) THEN 1 ELSE 0)
          /\ CallsOn("query_materialized_subset", name)
                => \/ QueryError(result'.value)
                   \/ /\ Holds(warehouse, name)
                      /\ Len(result'.value) <= LimitAsked(request')
      ]_vars

\* after a delete of s1 returned success and no later create of it did, a
\* list that ran to its end shows s1
C18_Witness ==
    /\ ListCompleted
    /\ LastOf(request)[<<"s","1">>] = "deleted"
    /\ EntriesOf(result.value, <<"s","1">>) # {}


\* the structured error of a tool: a record with an error field, inside a
\* one-element list for the tools that return a list
ErrorShape(value, call) ==
    IF call \in ListTools
    THEN Len(value) = 1 /\ "error" \in DOMAIN value[1]
    ELSE "error" \in DOMAIN value

\* the result of a tool that ran to its end: rows, subset entries, an
\* estimate, or a record with status success
SuccessShape(value, call) ==
    IF call \in Queries
    THEN \A i \in 1..Len(value) : DOMAIN value[i] = { "row" }
    ELSE IF call = "list_materialized_subsets"
    THEN \A i \in 1..Len(value) :
            /\ "error" \notin DOMAIN value[i]
            /\ "subset_name" \in DOMAIN value[i]
    ELSE IF call = "estimate_query_cost"
    THEN "error" \notin DOMAIN value /\ "bytes_processed" \in DOMAIN value
    ELSE "error" \notin DOMAIN value /\ StatusOf(value) = "success"

\* C19: every call of one of the ten warehouse-backed tools returns, whatever
\* call to the warehouse fails (building the client, running a statement,
\* the dry run, a DDL statement, reading metadata), and what it returns is
\* either the tool's success shape or its structured error, never an
\* exception.
C19_Theorem ==
    request.call \in WarehouseTools
        => /\ result.returned
           /\ ErrorShape(result.value, request.call)
                  # SuccessShape(result.value, request.call)

\* a query whose statement failed in the warehouse returned the error entry
C19_Witness ==
    /\ request.call = "query_events"
    /\ result.returned
    /\ Len(jobs) = 1
    /\ jobs[1].api = "query"
    /\ result.value = <<QueryFailed(HelpCredentials)>>


CREATE_OR_REPLACE ==
    <<"C","R","E","A","T","E"," ","O","R"," ","R","E","P","L","A","C","E",
      " ","T","A","B","L","E">>

\* C20: a create that went past ensuring the dataset asked for the dry run
\* of its creation statement second, once, and ran the creation statement
\* third, whatever the dry run gave (a high estimate or a failure); when
\* create returns success, its cost_estimate field is the estimate or the
\* dry run's error record.
C20_Theorem ==
    /\ (CreateReturned /\ jobs # <<>>) => jobs[1].api = "create_dataset"
    /\ (CreateReturned /\ Len(jobs) >= 2)
          => /\ jobs[2].api = "dry_run"
             /\ Len(jobs) >= 3
             /\ jobs[3].api = "query"
             /\ jobs[3].text = jobs[2].text
             /\ Contains(jobs[3].text, CREATE_OR_REPLACE)
             /\ \A i \in 3..Len(jobs) : jobs[i].api # "dry_run"
    /\ CreateSucceeded
          => /\ "cost_estimate" \in DOMAIN result.value
             /\ \/ result.value.cost_estimate = [error |-> "<str(e)>"]
                \/ /\ "bytes_processed" \in DOMAIN result.value.cost_estimate
                   /\ result.value.cost_estimate.bytes_processed
                        \in { 2^30, 2000000000 }

\* the dry run failed and the create went on to make the table and return
\* success
C20_Witness ==
    /\ CreateSucceeded
    /\ result.value.cost_estimate = [error |-> "<str(e)>"]
    /\ jobs[3].api = "query"
    /\ TableExists(warehouse, session[1], request.subset_name)
    /\ TableOf(warehouse, session[1], request.subset_name).expires
         = <<now + HoursOf(request.expiration_hours) * HOUR>>


\* create returned after it asked for its dry run
CreateEstimated ==
    /\ CreateReturned
    /\ Len(jobs) >= 2
    /\ jobs[2].api = "dry_run"

\* C21, as claimed: the statement create gives to the dry run is the select
\* portion, SELECT <fields> FROM <source table> WHERE <filter>, and not the
\* CREATE OR REPLACE TABLE ... AS statement.
C21_AsClaimed ==
    CreateEstimated
        => /\ jobs[2].text
                = select_portion(table_map[request.source_table],
                                 request.where_clause, <<"*">>)
           /\ ~Contains(jobs[2].text, CREATE_OR_REPLACE)

\* C21, amended: the statement create gives to the dry run is the whole
\* creation statement, CREATE OR REPLACE TABLE <table> AS SELECT <fields>
\* FROM <source table> WHERE <filter>.
C21_Theorem ==
    CreateEstimated
        => jobs[2].text
             = <<"\n">> \o INDENT \o CREATE_OR_REPLACE \o <<" ", BACKQUOTE>>
                 \o session[1].project_id \o GDELT_SUBSETS \o <<".">>
                 \o request.subset_name \o <<BACKQUOTE>> \o <<" ","A","S","\n">>
                 \o INDENT \o <<"S","E","L","E","C","T"," ","*","\n">>
                 \o INDENT \o <<"F","R","O","M"," ", BACKQUOTE>>
                 \o table_map[request.source_table] \o <<BACKQUOTE, "\n">>
                 \o INDENT \o <<"W","H","E","R","E"," ">>
                 \o request.where_clause \o <<"\n">> \o INDENT

C21_Witness ==
    /\ CreateEstimated
    /\ CreateSucceeded
    /\ Contains(jobs[2].text, CREATE_OR_REPLACE)
    /\ "bytes_processed" \in DOMAIN result.value.cost_estimate


\* the call that returns in this step is a create of the name that ran its
\* creation statement, went on to a later call and returned status error
CreateFailsLate(name) ==
    /\ CallsOn("create_materialized_subset", name)
    /\ StatusOf(result'.value) = "error"
    /\ Len(jobs') >= 4
    /\ jobs'[3].api = "query"

\* a table as a create leaves it when a call after its creation statement
\* fails: without expiration or without description
HalfMade(table) == table.expires = <<>> \/ table.description = <<>>

\* C22: create has no rollback. When a create ran its creation statement and
\* a later call of it (reading the table, setting the expiration, setting
\* the description) failed, it returns status error and the new table is in
\* the dataset with the rows of this create, without expiration or without
\* description; a list that then runs to its end has one entry of such a
\* table, and a query of it that does not fail returns its rows up to the
\* limit.
C22_Theorem ==
    [][ \A name \in SubsetNames :
          /\ CreateFailsLate(name)
                => /\ Holds(warehouse', name)
                   /\ HalfMade(warehouse'[TokenTriple[1]].tables[name][1])
                   /\ warehouse'[TokenTriple[1]].tables[name][1].num_rows
                        = MaxRows
                   /\ jobs'[Len(jobs')].api
                        \in { "get_table", "query", "update_table" }
          /\ (/\ Holds(warehouse, name)
              /\ HalfMade(warehouse[TokenTriple[1]].tables[name][1]))
                => /\ (Calls("list_materialized_subsets") /\ ListCompleted')
                        => /\ Cardinality(EntriesOf(result'.value, name)) = 1
                           /\ ListShows(result'.value, warehouse, session'[1])
                   /\ (/\ CallsOn("query_materialized_subset", name)
                       /\ ~QueryError(result'.value))
                        => /\ Len(result'.value) >= 1
                           /\ Len(result'.value) <= LimitAsked(request')
      ]_vars

\* no create of s1 has returned success, a create of it failed after its
\* creation statement, and a query returns a row of the table it left
C22_Witness ==
    /\ request.call = "query_materialized_subset"
    /\ result.returned
    /\ LastOf(request)[<<"s","1">>] = "none"
    /\ Holds(warehouse, <<"s","1">>)
    /\ warehouse[TokenTriple[1]].tables[<<"s","1">>][1].expires = <<>>
    /\ result.value = Rows(1)


\* a comparison of the recognised form for the table: SQLDATE with a literal
\* of 8 digits on events, the DATE column with a literal of 14 digits on gkg,
\* with >= or =
Recognised(t, table) ==
    /\ t.op \in { <<">","=">>, <<"=">> }
    /\ AllDigits(t.lit)
    /\ \/ /\ table = EVENTS_TABLE
          /\ EndsWith(Upper(t.col), SQLDATE)
          /\ Len(t.lit) = 8
       \/ /\ table = GKG_TABLE
          /\ Upper(t.col) = DATE
          /\ Len(t.lit) = 14

\* C23: inference returns a predicate only when the filter has a comparison
\* of the recognised form for its table (events: SQLDATE, >= or =, exactly 8
\* digits; gkg: the DATE column, >= or =, exactly 14 digits); a filter
\* without one (another operator such as >, BETWEEN, a literal of another
\* length, another column whose name ends in DATE), and every filter on
\* eventmentions or cloudvision, yields none.
C23_AsClaimed ==
    (Extracted /\ result.value # None)
        => \E t \in TermsOf(request) : Recognised(t, request.table)


(***************************************************************************)
(* Two create calls of the same subset name that run at the same time.     *)
(* There is no lock in the process: the warehouse calls of the two         *)
(* create_materialized_subset bodies interleave call by call.  request,    *)
(* session and result hold one value per caller, result the position of    *)
(* the caller in the method as well; jobs is the warehouse's log of the    *)
(* calls that wrote to the table, in the order it ran them, each with its  *)
(* caller.  The callers give different filters: the first selects one row, *)
(* the second MaxRows; the first asks for 24 hours, the second leaves the  *)
(* hours out.                                                              *)
(***************************************************************************)
Callers == { 1, 2 }

RaceName == <<"s","1">>

RaceClient ==
    GDELTBigQueryClient(TokenTriple[1], TokenTriple[2], TokenTriple[3], EnvUnset)

RaceDescriptions ==
    [Callers -> { None }] \cup { <<None, <<"t","w","o">> >>,
                                 << <<"o","n","e">>, None >>,
                                 << <<"o","n","e">>, <<"t","w","o">> >> }

RaceWhereClause(c) ==
    IF c = 1 THEN LifecycleWhereClause
    ELSE <<"S","Q","L","D","A","T","E"," ",">","="," ","2","0","2","3","0","1",
           "0","1">>

\* the rows the callers' filters select
RaceRows(c) == IF c = 1 THEN 1 ELSE MaxRows

RaceHours(c) == IF c = 1 THEN <<24>> ELSE <<>>

\* a caller between two calls of the method: the call it makes next
At(c, position) == ~result[c].returned /\ result[c].at = position

Logged(c, api, text) == [call |-> c, job |-> Job(api, text, RaceClient)]

RaceTableId == table_id_of(RaceClient, RaceName)

RaceCreateQuery(c) ==
    create_query_of(RaceTableId, EVENTS_TABLE, request[c].where_clause, <<"*">>)

\* the except branch of create_materialized_subset
RaceFailed ==
    [returned |-> TRUE,
     value |-> [status |-> "error", error |-> "<str(e)>", help |-> HelpPartition]]

\* the return of create_materialized_subset
RaceSucceeded(c) ==
    [returned |-> TRUE,
     value |-> [status |-> "success",
                table_id |-> RaceTableId,
                subset_name |-> RaceName,
                source_table |-> EVENTS_TABLE,
                rows_created |-> RaceRows(c),
                cost_estimate |-> result[c].cost,
                expires_in_hours |-> HoursOf(request[c].expiration_hours),
                message |-> "Subset created successfully. Will auto-delete in {expiration_hours} hours."]]

InitRace ==
    /\ environ = EnvUnset
    /\ \E description \in RaceDescriptions :
          request = [c \in Callers |->
                        [call |-> "create_materialized_subset",
                         subset_name |-> RaceName,
                         where_clause |-> RaceWhereClause(c),
                         description |-> description[c],
                         expiration_hours |-> RaceHours(c)]]
    /\ session = [c \in Callers |-> <<>>]
    /\ jobs = <<>>
    /\ result = [c \in Callers |-> [returned |-> FALSE, at |-> "create_dataset"]]
    /\ warehouse = EmptyWarehouse
    /\ now = Noon

\* self.client.create_dataset(dataset, exists_ok=True)
RaceEnsureDataset(c) ==
    /\ At(c, "create_dataset")
    /\ session' = [session EXCEPT ![c] = <<RaceClient>>]
    /\ warehouse' = [warehouse EXCEPT ![RaceClient.project_id].dataset = TRUE]
    /\ result' = [result EXCEPT ![c].at = "dry_run"]
    /\ UNCHANGED <<environ, request, jobs, now>>

\* cost_estimate = self.estimate_query_cost(create_query)
RaceEstimate(c) ==
    /\ At(c, "dry_run")
    /\ \E job_ok \in BOOLEAN :
          \E cost \in { client_estimate_query_cost(
                            RaceClient,
                            estimated_statement(RaceCreateQuery(c), EVENTS_TABLE,
                                                request[c].where_clause, <<"*">>),
                            [job_ok |-> job_ok, bytes |-> 2^30]) } :
              result' = [result EXCEPT
                            ![c] = [returned |-> FALSE, at |-> "create",
                                    cost |-> cost.value]]
    /\ UNCHANGED <<environ, request, session, jobs, warehouse, now>>

\* query_job = self.client.query(create_query); result = query_job.result()
RaceCreate(c) ==
    /\ At(c, "create")
    /\ jobs' = Append(jobs, Logged(c, "query", RaceCreateQuery(c)))
    /\ warehouse' = create_or_replace_table(warehouse, RaceClient.project_id,
                                            RaceName, RaceRows(c))
    /\ result' = [result EXCEPT ![c].at = "get_table"]
    /\ UNCHANGED <<environ, request, session, now>>

\* table = self.client.get_table(table_id)
RaceGetTable(c) ==
    /\ At(c, "get_table")
    /\ result' = IF TableExists(warehouse, RaceClient, RaceName)
                 THEN [result EXCEPT ![c].at = "alter"]
                 ELSE [result EXCEPT ![c] = RaceFailed]
    /\ UNCHANGED <<environ, request, session, jobs, warehouse, now>>

\* self.client.query(alter_query).result(), and the return that follows it
\* for a create without description
RaceAlter(c) ==
    /\ At(c, "alter")
    /\ \E ok \in BOOLEAN :
          /\ jobs' = IF ok /\ TableExists(warehouse, RaceClient, RaceName)
                      THEN Append(jobs,
                             Logged(c, "query",
                                alter_query_of(RaceTableId,
                                    timestamp_add(
                                        HoursOf(request[c].expiration_hours)))))
                      ELSE jobs
          /\ IF ok /\ TableExists(warehouse, RaceClient, RaceName)
             THEN /\ warehouse' =
                        [warehouse EXCEPT
                            ![RaceClient.project_id].tables[RaceName] =
                                << [@[1] EXCEPT !.expires =
                                      << timestamp_add_at(
                                             now,
                                             HoursOf(request[c].expiration_hours))
                                      >>] >>]
                  /\ result' = IF Truthy(request[c].description)
                               THEN [result EXCEPT ![c].at = "update_table"]
                               ELSE [result EXCEPT ![c] = RaceSucceeded(c)]
             ELSE /\ warehouse' = left_after_failure(
                                      warehouse, RaceClient.project_id, RaceName)
                  /\ result' = [result EXCEPT ![c] = RaceFailed]
    /\ UNCHANGED <<environ, request, session, now>>

\* table.description = description; self.client.update_table(table,
\* ["description"]), and the return that follows it
RaceUpdateTable(c) ==
    /\ At(c, "update_table")
    /\ jobs' = Append(jobs, Logged(c, "update_table", RaceTableId))
    /\ IF TableExists(warehouse, RaceClient, RaceName)
       THEN /\ warehouse' =
                  [warehouse EXCEPT
                      ![RaceClient.project_id].tables[RaceName] =
                          << [@[1] EXCEPT
                                !.description = request[c].description] >>]
            /\ result' = [result EXCEPT ![c] = RaceSucceeded(c)]
       ELSE /\ warehouse' = left_after_failure(
                                warehouse, RaceClient.project_id, RaceName)
            /\ result' = [result EXCEPT ![c] = RaceFailed]
    /\ UNCHANGED <<environ, request, session, now>>

NextRace ==
    \/ \E c \in Callers : RaceEnsureDataset(c)
    \/ \E c \in Callers : RaceEstimate(c)
    \/ \E c \in Callers : RaceCreate(c)
    \/ \E c \in Callers : RaceGetTable(c)
    \/ \E c \in Callers : RaceAlter(c)
    \/ \E c \in Callers : RaceUpdateTable(c)
    \/ Tick

SpecRace == InitRace /\ [][NextRace]_vars


BothSucceeded ==
    \A c \in Callers :
        result[c].returned /\ StatusOf(result[c].value) = "success"

IsCreation(entry) ==
    entry.job.api = "query" /\ Contains(entry.job.text, CREATE_OR_REPLACE)

IsAlter(entry) ==
    entry.job.api = "query" /\ ~Contains(entry.job.text, CREATE_OR_REPLACE)

IsUpdate(entry) == entry.job.api = "update_table"

\* the place in the log of the last call of a kind, 0 when there is none
LastWhere(Test(_)) ==
    LET at == { i \in 1..Len(jobs) : Test(jobs[i]) }
    IN IF at = {} THEN 0 ELSE CHOOSE i \in at : \A j \in at : i >= j

RaceTable == TableOf(warehouse, RaceClient, RaceName)

\* the expiration is one that caller c's statement sets at some time of the
\* run
ExpirationFrom(c) ==
    \E k \in 0..MaxTicks :
        /\ Noon + k * TickStep <= now
        /\ RaceTable.expires
             = << Noon + k * TickStep
                    + HoursOf(request[c].expiration_hours) * HOUR >>

\* the description a create leaves when nothing interferes: its own, or none
Described(c) ==
    IF Truthy(request[c].description) THEN request[c].description ELSE <<>>

\* C24, as claimed: once two concurrent creates of one name have both
\* returned success, the table's rows, its expiration and its description
\* all come from the call whose creation statement ran last.
C24_AsClaimed ==
    BothSucceeded
        => \A c \in { jobs[LastWhere(IsCreation)].call } :
               /\ RaceTable.num_rows = RaceRows(c)
               /\ ExpirationFrom(c)
               /\ RaceTable.description = Described(c)

\* C24, amended: once both have returned success, the rows are those of the
\* call whose creation statement ran last, the expiration is the one set by
\* the call whose expiration statement ran last, and the description is that
\* of the call whose description update ran last, or none when no
\* description update ran after the last creation statement.
C24_Theorem ==
    BothSucceeded
        => /\ RaceTable.num_rows = RaceRows(jobs[LastWhere(IsCreation)].call)
           /\ ExpirationFrom(jobs[LastWhere(IsAlter)].call)
           /\ RaceTable.description
                = (IF LastWhere(IsUpdate) > LastWhere(IsCreation)
                   THEN request[jobs[LastWhere(IsUpdate)].call].description
                   ELSE <<>>)

\* the second caller's creation ran last, the first caller's expiration
\* statement ran last: the second's rows expire after the first's 24 hours
C24_Witness ==
    /\ BothSucceeded
    /\ jobs[LastWhere(IsCreation)].call = 2
    /\ jobs[LastWhere(IsAlter)].call = 1
    /\ RaceTable.num_rows = MaxRows
    /\ RaceTable.expires = << now + 24 * HOUR >>
    /\ now > Noon



(***************************************************************************)
(* Two extend calls on the same subset that run at the same time.  Each    *)
(* extend_subset_expiration body makes two warehouse calls, get_table and  *)
(* the ALTER TABLE statement, and computes the new expiration in between   *)
(* from the table that get_table returned; the calls of the two bodies     *)
(* interleave.  The runs in which one caller makes both its calls before   *)
(* the other makes its first are the sequential ones.  request[c].found is *)
(* the expiration the subset had when the calls were issued.               *)
(***************************************************************************)
ExtendStartExpirations == { Noon + HOUR - 1, Noon + HOUR, Noon + HOUR + 1 }

ExtendHours == { <<1>>, <<24>>, <<>> }

ExtendFailed ==
    [returned |-> TRUE,
     value |-> [status |-> "error", error |-> "<str(e)>",
                message |-> "Failed to extend expiration for '{subset_name}'"]]

ExtendSucceeded(c, new_expiration) ==
    [returned |-> TRUE,
     value |-> [status |-> "success",
                subset_name |-> RaceName,
                new_expiration |-> new_expiration,
                message |-> "Expiration extended by {additional_hours} hours"]]

InitExtendRace ==
    /\ environ = EnvUnset
    /\ \E E \in ExtendStartExpirations :
          /\ warehouse =
                [EmptyWarehouse EXCEPT
                    ![RaceClient.project_id] =
                        [dataset |-> TRUE,
                         tables |-> [n \in DOMAIN EmptyWarehouse[RaceClient.project_id].tables |->
                                       IF n = RaceName
                                       THEN << [expires |-> <<E>>,
                                                description |-> <<>>,
                                                num_rows |-> 1] >>
                                       ELSE <<>>]]]
          /\ \E hours \in [Callers -> ExtendHours] :
                request = [c \in Callers |->
                              [call |-> "extend_subset_expiration",
                               subset_name |-> RaceName,
                               additional_hours |-> hours[c],
                               found |-> E]]
    /\ session = [c \in Callers |-> <<RaceClient>>]
    /\ jobs = <<>>
    /\ result = [c \in Callers |-> [returned |-> FALSE, at |-> "get_table"]]
    /\ now = Noon

\* table = self.client.get_table(table_id)
ExtendGetTable(c) ==
    /\ At(c, "get_table")
    /\ \E ok \in BOOLEAN :
          result' = IF ok /\ TableExists(warehouse, RaceClient, RaceName)
                    THEN [result EXCEPT
                             ![c] = [returned |-> FALSE, at |-> "alter",
                                     table |-> TableOf(warehouse, RaceClient,
                                                       RaceName)]]
                    ELSE [result EXCEPT ![c] = ExtendFailed]
    /\ UNCHANGED <<environ, request, session, jobs, warehouse, now>>

\* new_expiration from the table read before, then
\* self.client.query(alter_query).result() and the return
ExtendAlter(c) ==
    /\ At(c, "alter")
    /\ \E ok \in BOOLEAN :
       \E new_expiration \in { extended_expiration(
                                   result[c].table, now,
                                   HoursOf(request[c].additional_hours)) } :
          IF ok /\ TableExists(warehouse, RaceClient, RaceName)
          THEN /\ jobs' = Append(jobs,
                             Logged(c, "query",
                                extend_alter_query(RaceTableId, new_expiration)))
               /\ warehouse' =
                     [warehouse EXCEPT
                         ![RaceClient.project_id].tables[RaceName] =
                             << [@[1] EXCEPT !.expires =
                                   << timestamp_of(strftime(new_expiration)) >>] >>]
               /\ result' = [result EXCEPT
                                ![c] = ExtendSucceeded(c, new_expiration)]
          ELSE /\ jobs' = jobs
               /\ warehouse' = warehouse
               /\ result' = [result EXCEPT ![c] = ExtendFailed]
    /\ UNCHANGED <<environ, request, session, now>>

NextExtendRace ==
    \/ \E c \in Callers : ExtendGetTable(c)
    \/ \E c \in Callers : ExtendAlter(c)
    \/ Tick

SpecExtendRace == InitExtendRace /\ [][NextExtendRace]_vars

AllReturned == \A c \in Callers : result[c].returned

Extended == { c \in Callers : StatusOf(result[c].value) = "success" }

RECURSIVE HoursGranted(_)
\* the sum of the hours of a set of callers
HoursGranted(S) ==
    IF S = {} THEN 0
    ELSE LET c == CHOOSE x \in S : TRUE
         IN HoursOf(request[c].additional_hours) + HoursGranted(S \ {c})

\* C25, as claimed: once the extend calls on a subset have returned, the
\* stored expiration is the expiration the subset started from plus the
\* hours of every call that returned success, whether the calls ran one
\* after the other or at the same time.
C25_AsClaimed ==
    AllReturned
        => \A c \in Callers :
              RaceTable.expires
                 = << request[c].found + HoursGranted(Extended) * HOUR >>



PresentsToken == StartsWith(request.authorization, BEARER)

\* a client or a warehouse call of the request carries the project and the
\* principal of the triple
UsesIdentity(triple) ==
    \/ \E i \in 1..Len(session) :
          /\ session[i].project_id = triple[1]
          /\ session[i].client_email = triple[3]
    \/ \E i \in 1..Len(jobs) :
          [project_id |-> jobs[i].project_id,
           client_email |-> jobs[i].client_email] = IdentityOf(triple)

\* C26, as claimed: a request that presents a bearer token which fails
\* validation is never executed under the environment identity.
C26_AsClaimed ==
    (Served /\ PresentsToken /\ TokenIdentity = None /\ EnvIdentity # None)
        => ~UsesIdentity(EnvIdentity)

\* C26, amended: a request that presents a bearer token which fails
\* validation is treated as one without a token: when the environment
\* resolves to an identity the request is not refused and its client and
\* warehouse calls run under the environment identity; the environment
\* identity is never used by a request whose token passes validation.
C26_Theorem ==
    (Served /\ PresentsToken /\ EnvIdentity # None)
        => /\ (TokenIdentity = None) =>
                 /\ ErrorOf(result.value, request.call) # "Authentication required"
                 /\ RunsUnder(EnvIdentity)
           /\ (TokenIdentity # None) => ~UsesIdentity(EnvIdentity)

\* a token of two fields beside a valid environment: the query ran in the
\* environment's project
C26_Witness ==
    /\ Served
    /\ request.call = "query_events"
    /\ request.authorization = BEARER \o <<"x","|","y">>
    /\ EnvIdentity = EnvTriple
    /\ Len(jobs) = 1
    /\ jobs[1].project_id = EnvTriple[1]
    /\ session[1].client_email = EnvTriple[3]



SubsetTools ==
    { "create_materialized_subset", "list_materialized_subsets",
      "query_materialized_subset", "extend_subset_expiration",
      "delete_materialized_subset" }

\* the identity a request resolves to
ResolvedIdentity(req, env) ==
    IF get_credentials_from_token(req.authorization) # None
    THEN get_credentials_from_token(req.authorization)
    ELSE get_credentials_from_env(env)

\* every subset table that the call names lies in project P's gdelt_subsets
\* dataset: a statement names it between backquotes, the other calls by the
\* dataset or table id alone
LocatedIn(job, P) ==
    IF job.api \in { "query", "dry_run" }
    THEN \A i \in 1..(Len(job.text) - Len(GDELT_SUBSETS) + 1) :
            SubSeq(job.text, i, i + Len(GDELT_SUBSETS) - 1) = GDELT_SUBSETS
               => /\ i > Len(P) + 1
                  /\ SubSeq(job.text, i - Len(P) - 1, i - 1) = <<BACKQUOTE>> \o P
    ELSE StartsWith(job.text, P \o GDELT_SUBSETS)

\* the warehouse with every project but P as it is before anything is made
Alone(wh, P) ==
    [p \in DOMAIN wh |-> IF p = P THEN wh[p] ELSE EmptyWarehouse[p]]

\* what list and querySubset return is what they return when the other
\* projects hold nothing
SameWithoutOthers(req, value, wh, t, env, P) ==
    /\ req.call = "list_materialized_subsets" =>
          \E ext \in ListExternals :
              value = list_materialized_subsets(req.authorization, Alone(wh, P),
                                                t, env, ext).value
    /\ req.call = "query_materialized_subset" =>
          \E ext \in Externals :
              value = query_materialized_subset(
                          req.authorization, Alone(wh, P), req.subset_name,
                          req.where_clause, req.select_fields, LimitAsked(req),
                          env, ext).value

\* C27: every subset operation that builds a client builds it from the
\* identity its own request resolves to and runs every warehouse call under
\* it; with P that identity's project, the subset tables its calls name
\* are all at P.gdelt_subsets.<name>, the tables of every other project
\* are left as they were, and what list and querySubset return does not
\* depend on what the other projects hold.
C27_Theorem ==
    [][ (Idle /\ request'.call \in SubsetTools /\ session' # <<>>)
          => \A P \in { session'[1].project_id } :
                /\ \A i \in 1..Len(session') :
                      /\ session'[i].project_id
                           = ResolvedIdentity(request', environ)[1]
                      /\ session'[i].client_email
                           = ResolvedIdentity(request', environ)[3]
                /\ \A i \in 1..Len(jobs') :
                      /\ jobs'[i].project_id = P
                      /\ jobs'[i].client_email
                           = ResolvedIdentity(request', environ)[3]
                      /\ LocatedIn(jobs'[i], P)
                /\ \A Q \in Projects \ {P} : warehouse'[Q] = warehouse[Q]
                /\ SameWithoutOthers(request', result'.value, warehouse, now,
                                     environ, P)
      ]_vars

\* a delete under project p removed p's table s1 and left the table of the
\* same name in project e
C27_Witness ==
    /\ Served
    /\ request.call = "delete_materialized_subset"
    /\ session # <<>>
    /\ session[1].project_id = <<"p">>
    /\ StatusOf(result.value) = "success"
    /\ warehouse[<<"p">>].tables[<<"s","1">>] = <<>>
    /\ warehouse[<<"e">>].tables[<<"s","1">>] # <<>>



EstimateSubmitted ==
    /\ Served
    /\ request.call = "estimate_query_cost"
    /\ jobs # <<>>
    /\ jobs[1].api = "dry_run"

\* C28, as claimed: the statement that estimate_query_cost submits to the
\* dry run has the FROM table, the field list and the WHERE clause, inferred
\* partition predicate included, of the statement that the query operation
\* runs on the same table, filter and fields (with the estimate's own
\* LIMIT 1000).
C28_AsClaimed ==
    EstimateSubmitted
        => jobs[1].text = query_sql(table_map[request.table],
                                    request.where_clause,
                                    request.select_fields, 1000)



(***************************************************************************)
(* list_materialized_subsets on a subset whose expiration lies within      *)
(* MaxOffset half-seconds of the time of the call, before or after it, or  *)
(* was never set.                                                          *)
(***************************************************************************)
MaxOffset == 400

InitList ==
    /\ environ = EnvUnset
    /\ request = [call |-> "idle"]
    /\ session = <<>>
    /\ jobs = <<>>
    /\ result = Pending
    /\ \E expires \in { <<>> } \cup { <<Noon + d>> : d \in (0 - MaxOffset)..MaxOffset } :
          warehouse = WithTable(EmptyWarehouse, TokenTriple[1], <<"s","1">>,
                                [expires |-> expires, description |-> <<>>,
                                 num_rows |-> 1])
    /\ now = Noon

NextList == ListMaterializedSubsets

SpecList == InitList /\ [][NextList]_vars

\* list returned the entries of the caller's subsets
Listed ==
    /\ request.call = "list_materialized_subsets"
    /\ result.returned
    /\ \A i \in 1..Len(result.value) : "is_expired" \in DOMAIN result.value[i]

StoredExpiration(entry) ==
    TableOf(warehouse, session[1], entry.subset_name).expires

\* C29, as claimed: in every entry of list, is_expired is true exactly when
\* the subset has a stored expiration that is not later than the current
\* time; a subset without expiration has is_expired false and no
\* expires_in_hours.
C29_AsClaimed ==
    Listed =>
        \A i \in 1..Len(result.value) :
            /\ result.value[i].is_expired
                 <=> /\ StoredExpiration(result.value[i]) # <<>>
                     /\ StoredExpiration(result.value[i])[1] <= now
            /\ StoredExpiration(result.value[i]) = <<>>
                 => result.value[i].expires_in_hours = <<>>

\* C29, amended: in every entry of list, is_expired is true exactly when
\* the subset has a stored expiration that is less than 180 seconds after
\* the current time (the hours left, rounded to one decimal place, are 0.0
\* or less); a subset without expiration has is_expired false and no
\* expires_in_hours.
C29_Theorem ==
    Listed =>
        \A i \in 1..Len(result.value) :
            /\ result.value[i].is_expired
                 <=> /\ StoredExpiration(result.value[i]) # <<>>
                     /\ StoredExpiration(result.value[i])[1] - now
                          < HOUR \div 20
            /\ StoredExpiration(result.value[i]) = <<>>
                 => result.value[i].expires_in_hours = <<>>

\* a subset with 179.5 seconds left is listed as expired, with 0.0 hours
C29_Witness ==
    /\ Listed
    /\ Len(result.value) = 1
    /\ StoredExpiration(result.value[1]) = << now + HOUR \div 20 - 1 >>
    /\ result.value[1].is_expired
    /\ result.value[1].expires_in_hours = <<0>>



\* the number of places of s at which sub stands
Occurrences(s, sub) ==
    Cardinality({ i \in 1..(Len(s) - Len(sub) + 1) :
                     SubSeq(s, i, i + Len(sub) - 1) = sub })

\* C30, as claimed: when the filter of a table query already contains
\* _PARTITIONTIME, in any letter case, no partition predicate is inferred:
\* the statement that runs names _PARTITIONTIME as often as the caller's
\* filter does, and its WHERE clause is the caller's filter alone.
C30_AsClaimed ==
    (/\ Served
     /\ request.call \in TableQueries
     /\ jobs # <<>>
     /\ Truthy(request.where_clause)
     /\ Contains(Upper(request.where_clause), PARTITIONTIME))
        => /\ Occurrences(Upper(jobs[1].text), PARTITIONTIME)
                = Occurrences(Upper(request.where_clause), PARTITIONTIME)
           /\ Contains(jobs[1].text, WHERE \o request.where_clause)

====
